---- MODULE Spec2Model ----
(***************************************************************************)
(* A model of tree-sitter-ts: the character reader, the compiled matchers, *)
(* the lexer loop with its state machine, the block tracker, the symbol    *)
(* detector and the profile registry with the facade on top of it.         *)
(*                                                                         *)
(* Strings are sequences of one-character strings; offsets are 0-based as  *)
(* in the source, so the character at offset p of s is s[p + 1].           *)
(***************************************************************************)
EXTENDS Integers, Sequences, FiniteSets, TLC

VARIABLES
    \* ---- CompiledLexer.tokenize (lexer.ts) ----
    src,        \* the source string being tokenized
    cfg,        \* which LexerConfig the CompiledLexer was built from
    reader,     \* CharReader: [pos, line, col]
    stack,      \* StateMachine.stack
    tokens,     \* the local tokens array
    iters,      \* number of loop iterations run so far
    lastScan,   \* what the winning scan returned in the last iteration (0: fallback)
    lastRule,   \* index of the winning rule in the last iteration (0: fallback)
    lexpc,      \* "run" | "done" (returned tokens) | "threw"
    \* ---- the profile registry (profiles/index.ts) and the facade ----
    profilesByName,       \* Map name -> profile
    profilesByExtension,  \* Map lower-cased extension -> profile
    lastCall,   \* the last registry or facade call: [op, arg, result]
    \* ---- findBlockSpans (parser/index.ts) ----
    btTokens,   \* the values of the tokens argument
    btRules,    \* the blockRules argument
    btI,        \* the loop index i
    btStack,    \* the work stack of [name, openIndex, depth]
    btSpans,    \* the spans array
    btpc,       \* "run" | "done" (returned the sorted spans)
    \* ---- extractSymbolsFromProfile / detectSymbols (parser) ----
    symSrc,     \* the source argument
    symProfile, \* the profile argument: an index into SymbolProfiles
    symTokens,  \* tokens: tokenizeWithConfig(source, profile.lexer)
    symSpans,   \* blockSpans: findBlockSpans(tokens, blocks)
    symRule,    \* the position of the outer loop in rules (1-based)
    symFi,      \* the inner loop index fi
    symUsed,    \* the set used
    symSymbols, \* the symbols array
    sympc,      \* "run" | "done" (returned the sorted symbols)
    \* ---- StateMachine (state-machine.ts) ----
    smStack, \* this.stack
    smCall,  \* the last call: [op, arg, before], before = the stack it was called on
    \* ---- a CharReader under any calls (char-reader.ts, matcher-compiler.ts) ----
    rdFam,    \* the family of sources and matchers: an index into ReaderFamilies
    rdSrc,    \* this.src
    rdReader, \* pos, line, col
    rdCall,   \* the last call: [op, arg, before, result], before = the reader it was called on
    \* ---- executeCli (cli/index.ts) ----
    cliArgv,   \* the argv argument
    cliParsed, \* the local parsed, kept across the await
    cliLog,    \* the messages written with io.log
    cliError,  \* the messages written with io.error
    cliExit,   \* the values the promise resolved with
    clipc,     \* "off" | "start" | "readFile" (awaiting readFile) | "done"
    \* ---- lexerCache and tokenizeWithConfig (lexer.ts) ----
    lexerCache, \* WeakMap config -> CompiledLexer, a lexer being [id, config]
    lexerCount, \* the number of CompiledLexer objects constructed so far
    callConfig, \* the config argument of the last tokenizeWithConfig call (0: none)
    prevStack   \* history: the stack the call before the last one ended with

lexVars == <<src, cfg, reader, stack, tokens, iters, lastScan, lastRule, lexpc>>

regVars == <<profilesByName, profilesByExtension, lastCall>>

btVars == <<btTokens, btRules, btI, btStack, btSpans, btpc>>

symVars == <<symSrc, symProfile, symTokens, symSpans, symRule, symFi, symUsed,
             symSymbols, sympc>>

smVars == <<smStack, smCall>>

rdVars == <<rdFam, rdSrc, rdReader, rdCall>>

cliVars == <<cliArgv, cliParsed, cliLog, cliError, cliExit, clipc>>

cacheVars == <<lexerCache, lexerCount, callConfig, prevStack>>

vars == <<lexVars, regVars, btVars, symVars, smVars, rdVars, cliVars, cacheVars>>

\* what the operations of one component leave alone
nonLexVars == <<regVars, btVars, symVars, smVars, rdVars, cliVars, cacheVars>>
nonRegVars == <<lexVars, btVars, symVars, smVars, rdVars, cliVars, cacheVars>>
nonBtVars == <<lexVars, regVars, symVars, smVars, rdVars, cliVars, cacheVars>>
nonSymVars == <<lexVars, regVars, btVars, smVars, rdVars, cliVars, cacheVars>>
nonSmVars == <<lexVars, regVars, btVars, symVars, rdVars, cliVars, cacheVars>>
nonRdVars == <<lexVars, regVars, btVars, symVars, smVars, cliVars, cacheVars>>
nonCliVars == <<lexVars, regVars, btVars, symVars, smVars, rdVars, cacheVars>>
nonCacheVars == <<lexVars, regVars, btVars, symVars, smVars, rdVars, cliVars>>

-----------------------------------------------------------------------------
(* Bounds *)

MaxSrcLen == 4

\* findBlockSpans: the longest token list and the longest list of block rules
MaxBlockTokens == 3
MaxBlockRules == 2

\* extractSymbolsFromProfile: the longest source
MaxSymSrcLen == 4

\* StateMachine: the deepest stack
MaxSmDepth == 3

\* CharReader and matchers: the longest source
MaxReaderSrcLen == 4

\* the longest argument list after the node and script paths, and the longest
\* analysis result
MaxCliArgs == 4
MaxCliResult == 2

\* the longest source of a tokenizeWithConfig call
MaxCacheSrcLen == 3

-----------------------------------------------------------------------------
(* Characters *)

CR == "CR"
LF == "LF"

LexAlphabet == {"a", "'", "{", "}", CR, LF}

\* the characters the model's alphabets draw from, by class
LowerChars == {"a", "b", "e", "f", "i", "o", "u", "x"}
UpperChars == {"A", "B", "E", "F", "I", "O", "U", "X"}
LetterChars == LowerChars \cup UpperChars
HexLetterChars == {"a", "b", "e", "f", "A", "B", "E", "F"}
DigitChars == {"0", "1", "2", "3", "4", "5", "6", "7", "8", "9"}
WordChars == LetterChars \cup DigitChars \cup {"_", "$"}

SeqsUpTo(S, n) == UNION {[1..k -> S] : k \in 0..n}

\* s.slice(a, b) for 0 <= a
Slice(s, a, b) ==
    LET e == IF b > Len(s) THEN Len(s) ELSE b
    IN  IF a >= e THEN <<>> ELSE SubSeq(s, a + 1, e)

\* s[i] of JavaScript: the character or undefined
CharAt(s, i) == IF i >= 0 /\ i < Len(s) THEN s[i + 1] ELSE "undefined"

-----------------------------------------------------------------------------
(* CharReader *)

NewReader == [pos |-> 0, line |-> 1, col |-> 0]

Position(r) == [line |-> r.line, column |-> r.col, offset |-> r.pos]

Eof(s, r) == r.pos >= Len(s)

\* mutant: the \n after a \r is left for the next call
Advance_CrAlone(s, r) ==
    IF r.pos >= Len(s) THEN r
    ELSE IF s[r.pos + 1] \in {CR, LF}
      THEN [pos |-> r.pos + 1, line |-> r.line + 1, col |-> 0]
    ELSE [pos |-> r.pos + 1, line |-> r.line, col |-> r.col + 1]

Advance(s, r) ==
    IF r.pos >= Len(s) THEN r
    ELSE LET ch == s[r.pos + 1]
             p1 == r.pos + 1
         IN  IF ch = LF
               THEN [pos |-> p1, line |-> r.line + 1, col |-> 0]
             ELSE IF ch = CR
               THEN [pos |-> IF p1 < Len(s) /\ s[p1 + 1] = LF THEN p1 + 1 ELSE p1,
                     line |-> r.line + 1, col |-> 0]
             ELSE [pos |-> p1, line |-> r.line, col |-> r.col + 1]

\* what advance() returns
AdvanceChar(s, r) == IF r.pos >= Len(s) THEN <<>> ELSE <<s[r.pos + 1]>>

RECURSIVE AdvanceLoop(_, _, _, _)
AdvanceLoop(s, r, i, n) ==
    IF i < n /\ r.pos < Len(s) THEN AdvanceLoop(s, Advance(s, r), i + 1, n) ELSE r

\* mutant: the loop counter starts at 1
AdvanceN_OffByOne(s, r, n) == AdvanceLoop(s, r, 1, n)

\* the reader after advanceN(n)
AdvanceN(s, r, n) == AdvanceLoop(s, r, 0, n)

\* what advanceN(n) returns
AdvanceNSlice(s, r, n) == Slice(s, r.pos, AdvanceN(s, r, n).pos)

StartsWith(s, p, str) ==
    /\ p + Len(str) <= Len(s)
    /\ \A i \in 1..Len(str) : s[p + i] = str[i]

-----------------------------------------------------------------------------
(* Character classes (char-classes.ts): a class definition is a record     *)
(* tagged by k; TestClass is the predicate compileCharClass builds.        *)

Predefined(name) == [k |-> "predefined", name |-> name]
Chars(set) == [k |-> "chars", chars |-> set]
Union(defs) == [k |-> "union", of |-> defs]
Negate(def) == [k |-> "negate", of |-> def]
Ref(name) == [k |-> "ref", name |-> name]

RECURSIVE TestClass(_, _, _)
TestClass(def, refs, ch) ==
    CASE def.k = "predefined" ->
           (CASE def.name = "letter" -> ch \in LetterChars
              [] def.name = "upper" -> ch \in UpperChars
              [] def.name = "lower" -> ch \in LowerChars
              [] def.name = "digit" -> ch \in DigitChars
              [] def.name = "hexDigit" -> ch \in DigitChars \cup HexLetterChars
              [] def.name = "alphanumeric" -> ch \in LetterChars \cup DigitChars
              [] def.name = "whitespace" -> ch \in {" ", "TAB"}
              [] def.name = "newline" -> ch \in {LF, CR}
              [] def.name = "any" -> TRUE
              [] OTHER -> FALSE)
      [] def.k = "chars" -> ch \in def.chars
      [] def.k = "union" -> \E i \in 1..Len(def.of) : TestClass(def.of[i], refs, ch)
      [] def.k = "negate" -> ~TestClass(def.of, refs, ch)
      [] def.k = "ref" -> TestClass(refs[def.name], refs, ch)
      [] OTHER -> FALSE

-----------------------------------------------------------------------------
(* Matchers (matcher-compiler.ts).  Scan(m, cc, s, p) is what the compiled *)
(* scan function returns for a reader at offset p of s.                    *)

StringM(values) == [kind |-> "string", values |-> values]
KeywordsM(words) == [kind |-> "keywords", words |-> words]
DelimitedM(open, close, escape, multiline, nested) ==
    [kind |-> "delimited", open |-> open, close |-> close, escape |-> escape,
     multiline |-> multiline, nested |-> nested]
LineM(start) == [kind |-> "line", start |-> start]
CharSeqM(first, hasRest, rest) ==
    [kind |-> "charSequence", first |-> first, hasRest |-> hasRest, rest |-> rest]
SequenceM(elements) == [kind |-> "sequence", elements |-> elements]
\* separator "" and suffix <<>> are absent
NumberM(integer, float, hex, octal, binary, scientific, separator, suffix) ==
    [kind |-> "number", integer |-> integer, float |-> float, hex |-> hex,
     octal |-> octal, binary |-> binary, scientific |-> scientific,
     separator |-> separator, suffix |-> suffix]
PatternM(regex) == [kind |-> "pattern", regex |-> regex]

\* [...list].sort((a, b) => b.length - a.length): a stable insertion sort
RECURSIVE InsertByLen(_, _)
InsertByLen(sorted, w) ==
    IF sorted = <<>> THEN <<w>>
    ELSE IF Len(sorted[Len(sorted)]) >= Len(w) THEN Append(sorted, w)
    ELSE Append(InsertByLen(SubSeq(sorted, 1, Len(sorted) - 1), w), sorted[Len(sorted)])

RECURSIVE SortByLenDesc(_)
SortByLenDesc(list) ==
    IF list = <<>> THEN <<>>
    ELSE InsertByLen(SortByLenDesc(SubSeq(list, 1, Len(list) - 1)), list[Len(list)])

\* the length of the first string of the list that is a prefix at p; 0 if none
RECURSIVE FirstPrefix(_, _, _, _)
FirstPrefix(list, i, s, p) ==
    IF i > Len(list) THEN 0
    ELSE IF StartsWith(s, p, list[i]) THEN Len(list[i])
    ELSE FirstPrefix(list, i + 1, s, p)

ScanString(m, s, p) == FirstPrefix(SortByLenDesc(m.values), 1, s, p)

IsWordChar(ch) == ch \in WordChars

\* mutant: the character before the reader is not looked at
RECURSIVE KeywordLoop_NoBefore(_, _, _, _)
KeywordLoop_NoBefore(sorted, i, s, p) ==
    IF i > Len(sorted) THEN 0
    ELSE LET word == sorted[i]
             after == CharAt(s, p + Len(word))
         IN  IF StartsWith(s, p, word) /\ (after = "undefined" \/ ~IsWordChar(after))
               THEN Len(word)
               ELSE KeywordLoop_NoBefore(sorted, i + 1, s, p)

RECURSIVE KeywordLoop(_, _, _, _)
KeywordLoop(sorted, i, s, p) ==
    IF i > Len(sorted) THEN 0
    ELSE LET word == sorted[i]
             after == CharAt(s, p + Len(word))
         IN  IF /\ StartsWith(s, p, word)
                /\ (after = "undefined" \/ ~IsWordChar(after))
                /\ (p - 1 < 0 \/ ~IsWordChar(CharAt(s, p - 1)))
               THEN Len(word)
               ELSE KeywordLoop(sorted, i + 1, s, p)

ScanKeywords(m, s, p) == KeywordLoop(SortByLenDesc(m.words), 1, s, p)

MatchAt(s, pos, str) == \A i \in 1..Len(str) : CharAt(s, pos + i - 1) = str[i]

\* mutant: a recurring open literal is never counted
RECURSIVE DelimitedLoop_Flat(_, _, _, _, _)
DelimitedLoop_Flat(m, s, startPos, pos, depth) ==
    IF pos >= Len(s) THEN 0
    ELSE IF m.escape # "" /\ CharAt(s, pos) = m.escape
      THEN DelimitedLoop_Flat(m, s, startPos, pos + 2, depth)
    ELSE IF MatchAt(s, pos, m.close)
      THEN IF depth - 1 = 0 THEN pos + Len(m.close) - startPos
           ELSE DelimitedLoop_Flat(m, s, startPos, pos + Len(m.close), depth - 1)
    ELSE IF ~m.multiline /\ CharAt(s, pos) \in {LF, CR} THEN 0
    ELSE DelimitedLoop_Flat(m, s, startPos, pos + 1, depth)

RECURSIVE DelimitedLoop(_, _, _, _, _)
DelimitedLoop(m, s, startPos, pos, depth) ==
    IF pos >= Len(s) THEN 0
    ELSE IF m.escape # "" /\ CharAt(s, pos) = m.escape
      THEN DelimitedLoop(m, s, startPos, pos + 2, depth)
    ELSE IF m.nested /\ MatchAt(s, pos, m.open)
      THEN DelimitedLoop(m, s, startPos, pos + Len(m.open), depth + 1)
    ELSE IF MatchAt(s, pos, m.close)
      THEN IF depth - 1 = 0 THEN pos + Len(m.close) - startPos
           ELSE DelimitedLoop(m, s, startPos, pos + Len(m.close), depth - 1)
    ELSE IF ~m.multiline /\ CharAt(s, pos) \in {LF, CR} THEN 0
    ELSE DelimitedLoop(m, s, startPos, pos + 1, depth)

ScanDelimited(m, s, p) ==
    IF ~StartsWith(s, p, m.open) THEN 0
    ELSE DelimitedLoop(m, s, p, p + Len(m.open), 1)

RECURSIVE LineLoop(_, _)
LineLoop(s, pos) ==
    IF pos < Len(s) /\ CharAt(s, pos) # LF /\ CharAt(s, pos) # CR
      THEN LineLoop(s, pos + 1) ELSE pos

ScanLine(m, s, p) ==
    IF ~StartsWith(s, p, m.start) THEN 0 ELSE LineLoop(s, p + Len(m.start)) - p

RECURSIVE RestLoop(_, _, _, _)
RestLoop(rest, cc, s, pos) ==
    IF pos < Len(s) /\ TestClass(rest, cc, CharAt(s, pos))
      THEN RestLoop(rest, cc, s, pos + 1) ELSE pos

ScanCharSequence(m, cc, s, p) ==
    IF p >= Len(s) \/ ~TestClass(m.first, cc, CharAt(s, p)) THEN 0
    ELSE IF ~m.hasRest THEN 1
    ELSE RestLoop(m.rest, cc, s, p + 1) - p

\* one of the digit loops: a digit, then a separator if one follows
RECURSIVE DigitLoop(_, _, _, _)
DigitLoop(s, pos, digits, separator) ==
    IF pos < Len(s) /\ CharAt(s, pos) \in digits
    THEN DigitLoop(s,
                   IF separator # "" /\ pos + 1 < Len(s) /\ CharAt(s, pos + 1) = separator
                   THEN pos + 2 ELSE pos + 1,
                   digits, separator)
    ELSE pos

\* consumeSuffix: the position after the longest suffix that matches at pos
ConsumeSuffix(s, pos, suffixes) ==
    LET sorted == SortByLenDesc(suffixes)
        hits == {i \in 1..Len(sorted) : MatchAt(s, pos, sorted[i])}
    IN  IF hits = {} THEN pos
        ELSE pos + Len(sorted[CHOOSE i \in hits : \A j \in hits : i <= j])

\* the 0x / 0o / 0b branches: digits of the base after the two-character prefix
ScanPrefixed(m, s, p, digits) ==
    LET pos == DigitLoop(s, p + 2, digits, m.separator)
    IN  IF pos = p + 2 THEN 0 ELSE ConsumeSuffix(s, pos, m.suffix) - p

\* the decimal branch
ScanDecimal(m, s, p) ==
    LET isDigit == p < Len(s) /\ CharAt(s, p) \in DigitChars
        isDotDigit == m.float /\ p < Len(s) /\ CharAt(s, p) = "."
                      /\ p + 1 < Len(s) /\ CharAt(s, p + 1) \in DigitChars
        intEnd == DigitLoop(s, p, DigitChars, m.separator)
        fracEnd == IF /\ m.float /\ intEnd < Len(s) /\ CharAt(s, intEnd) = "."
                      /\ intEnd + 1 < Len(s) /\ CharAt(s, intEnd + 1) \in DigitChars
                   THEN DigitLoop(s, intEnd + 1, DigitChars, m.separator)
                   ELSE intEnd
        signEnd == IF fracEnd + 1 < Len(s) /\ CharAt(s, fracEnd + 1) \in {"+", "-"}
                   THEN fracEnd + 2 ELSE fracEnd + 1
        expEnd == DigitLoop(s, signEnd, DigitChars, "")
        pos == IF /\ m.scientific /\ fracEnd < Len(s) /\ CharAt(s, fracEnd) \in {"e", "E"}
                  /\ expEnd > signEnd
               THEN expEnd ELSE fracEnd
    IN  IF ~m.integer /\ ~m.float THEN 0
        ELSE IF ~isDigit /\ ~isDotDigit THEN 0
        ELSE IF fracEnd = p THEN 0
        ELSE ConsumeSuffix(s, pos, m.suffix) - p

ScanNumber(m, s, p) ==
    LET next == CharAt(s, p + 1)
    IN  IF p < Len(s) /\ CharAt(s, p) = "0" /\ p + 1 < Len(s)
        THEN IF m.hex /\ next \in {"x", "X"}
               THEN ScanPrefixed(m, s, p, DigitChars \cup HexLetterChars)
             ELSE IF m.octal /\ next \in {"o", "O"}
               THEN ScanPrefixed(m, s, p, {"0", "1", "2", "3", "4", "5", "6", "7"})
             ELSE IF m.binary /\ next \in {"b", "B"}
               THEN ScanPrefixed(m, s, p, {"0", "1"})
             ELSE ScanDecimal(m, s, p)
        ELSE ScanDecimal(m, s, p)

\* the regular expressions of the model's pattern matchers, anchored at p:
\* "a+" and "\\r?\\n"
RECURSIVE CountLeading(_, _, _)
CountLeading(s, p, ch) ==
    IF p < Len(s) /\ CharAt(s, p) = ch THEN 1 + CountLeading(s, p + 1, ch) ELSE 0

ScanPattern(m, s, p) ==
    CASE m.regex = "a+" -> CountLeading(s, p, "a")
      [] m.regex = "\\r?\\n" ->
           IF CharAt(s, p) = LF THEN 1
           ELSE IF CharAt(s, p) = CR /\ CharAt(s, p + 1) = LF THEN 2
           ELSE 0
      [] OTHER -> 0

RECURSIVE Scan(_, _, _, _)
RECURSIVE SequenceLoop(_, _, _, _, _, _)

\* the loop of compileSequenceMatcher: r is the reader the elements move
SequenceLoop(elements, i, cc, s, r, total) ==
    IF i > Len(elements) THEN total
    ELSE LET n == Scan(elements[i], cc, s, r.pos)
         IN  IF n = 0 THEN 0
             ELSE SequenceLoop(elements, i + 1, cc, s, AdvanceN(s, r, n), total + n)

ScanSequence(m, cc, s, p) ==
    SequenceLoop(m.elements, 1, cc, s, [pos |-> p, line |-> 1, col |-> 0], 0)

Scan(m, cc, s, p) ==
    CASE m.kind = "string" -> ScanString(m, s, p)
      [] m.kind = "keywords" -> ScanKeywords(m, s, p)
      [] m.kind = "delimited" -> ScanDelimited(m, s, p)
      [] m.kind = "line" -> ScanLine(m, s, p)
      [] m.kind = "charSequence" -> ScanCharSequence(m, cc, s, p)
      [] m.kind = "number" -> ScanNumber(m, s, p)
      [] m.kind = "sequence" -> ScanSequence(m, cc, s, p)
      [] m.kind = "pattern" -> ScanPattern(m, s, p)
      [] OTHER -> 0

\* reader.save() and reader.restore(state)
Save(r) == [pos |-> r.pos, line |-> r.line, col |-> r.col]

\* mutant: restore leaves the reader where it is
Restore_Skipped(r, state) == r

Restore(r, state) == [pos |-> state.pos, line |-> state.line, col |-> state.col]

\* the reader when the scan function of matcher m returns, called on reader r:
\* only the sequence matcher calls methods that move the reader
RECURSIVE ReaderAfter(_, _, _, _)
RECURSIVE SequenceReader(_, _, _, _, _, _)
SequenceReader(elements, i, cc, s, r, saved) ==
    IF i > Len(elements) THEN Restore(r, saved)
    ELSE LET r1 == ReaderAfter(elements[i], cc, s, r)
             n == Scan(elements[i], cc, s, r.pos)
         IN  IF n = 0 THEN Restore(r1, saved)
             ELSE SequenceReader(elements, i + 1, cc, s, AdvanceN(s, r1, n), saved)

ReaderAfter(m, cc, s, r) ==
    IF m.kind = "sequence" THEN SequenceReader(m.elements, 1, cc, s, r, Save(r)) ELSE r

-----------------------------------------------------------------------------
(* StateMachine (state-machine.ts) *)

NewStateMachine(initialState) == <<initialState>>

Current(st) == st[Len(st)]

Push(st, state) == Append(st, state)

\* mutant: pop without the guard on the last state
Pop_Unguarded(st) == SubSeq(st, 1, Len(st) - 1)

Pop(st) == IF Len(st) > 1 THEN SubSeq(st, 1, Len(st) - 1) ELSE st

SwitchTo(st, state) == [st EXCEPT ![Len(st)] = state]

\* a rule's push / switchTo is "" and its pop FALSE when the field is absent
ApplyTransition(st, rule) ==
    IF rule.push # "" THEN Push(st, rule.push)
    ELSE IF rule.pop THEN Pop(st)
    ELSE IF rule.switchTo # "" THEN SwitchTo(st, rule.switchTo)
    ELSE st

-----------------------------------------------------------------------------
(* Lexer configurations: the LexerConfig values the model tokenizes with   *)

Rule(match, token) ==
    [match |-> match, token |-> token, push |-> "", pop |-> FALSE, switchTo |-> ""]
PushRule(match, token, state) ==
    [match |-> match, token |-> token, push |-> state, pop |-> FALSE, switchTo |-> ""]
PopRule(match, token) ==
    [match |-> match, token |-> token, push |-> "", pop |-> TRUE, switchTo |-> ""]
SwitchRule(match, token, state) ==
    [match |-> match, token |-> token, push |-> "", pop |-> FALSE, switchTo |-> state]

Letter == Predefined("letter")
Newline == Predefined("newline")

\* keywords, identifiers, a multiline string, a pushed state without a
\* newline rule, the newline rule of the built-in profiles (common.ts:454)
CodeConfig ==
    [initialState |-> "main",
     charClasses |-> [identPart |-> Letter],
     tokenTypes |-> [keyword |-> "keyword", identifier |-> "identifier",
                     string |-> "string", newline |-> "newline"],
     states |->
       [main |-> << Rule(KeywordsM(<< <<"a", "a">> >>), "keyword"),
                    Rule(CharSeqM(Letter, TRUE, Ref("identPart")), "identifier"),
                    Rule(DelimitedM(<<"'">>, <<"'">>, "", TRUE, FALSE), "string"),
                    PushRule(StringM(<< <<"{">> >>), "punctuation", "inner"),
                    Rule(CharSeqM(Newline, FALSE, Newline), "newline") >>,
        inner |-> << PopRule(StringM(<< <<"}">> >>), "punctuation"),
                     Rule(CharSeqM(Letter, TRUE, Letter), "identifier") >>]]

\* a sequence matcher, switchTo, a pop at depth 1 and a push of a state the
\* configuration does not define
OddConfig ==
    [initialState |-> "main",
     charClasses |-> [identPart |-> Letter],
     tokenTypes |-> [identifier |-> "identifier"],
     states |->
       [main |-> << SwitchRule(SequenceM(<< StringM(<< <<"'">> >>),
                                            CharSeqM(Newline, FALSE, Newline) >>),
                               "continuation", "alt"),
                    PushRule(StringM(<< <<"{">> >>), "punctuation", "missing"),
                    Rule(CharSeqM(Letter, FALSE, Letter), "identifier") >>,
        alt |-> << PopRule(StringM(<< <<"}">> >>), "punctuation"),
                   SwitchRule(CharSeqM(Predefined("any"), FALSE, Letter), "any", "main") >>]]

LexConfigs == <<CodeConfig, OddConfig>>

-----------------------------------------------------------------------------
(* CompiledLexer.tokenize (lexer.ts) *)

\* this.states.get(name): the compiled rules, or undefined
HasState(c, name) == name \in DOMAIN c.states

\* the index of the first rule of the state whose scan returns n > 0, or 0
RECURSIVE FirstMatch(_, _, _, _, _)
FirstMatch(c, rules, i, s, p) ==
    IF i > Len(rules) THEN 0
    ELSE IF Scan(rules[i].match, c.charClasses, s, p) > 0 THEN i
    ELSE FirstMatch(c, rules, i + 1, s, p)

\* typeDef?.category ?? "plain"
Category(c, type) == IF type \in DOMAIN c.tokenTypes THEN c.tokenTypes[type] ELSE "plain"

\* the token of a rule match: the reader is r before advanceN(consumed)
MatchToken(c, rule, s, r, consumed) ==
    [type |-> rule.token,
     value |-> AdvanceNSlice(s, r, consumed),
     category |-> Category(c, rule.token),
     range |-> [start |-> Position(r), end |-> Position(AdvanceN(s, r, consumed))]]

\* mutant: the end position is computed as one past the start instead of
\* being read from the reader
ErrorToken_EndPlusOne(s, r) ==
    [type |-> "error",
     value |-> AdvanceChar(s, r),
     category |-> "error",
     range |-> [start |-> Position(r),
                end |-> [line |-> r.line, column |-> r.col + 1, offset |-> r.pos + 1]]]

\* the token of the fallback: the reader is r before advance()
ErrorToken(s, r) ==
    [type |-> "error",
     value |-> AdvanceChar(s, r),
     category |-> "error",
     range |-> [start |-> Position(r), end |-> Position(Advance(s, r))]]

LexInit ==
    /\ cfg \in 1..Len(LexConfigs)
    /\ src \in SeqsUpTo(LexAlphabet, MaxSrcLen)
    /\ reader = NewReader
    /\ stack = NewStateMachine(LexConfigs[cfg].initialState)
    /\ tokens = <<>>
    /\ iters = 0
    /\ lastScan = 0
    /\ lastRule = 0
    /\ lexpc = "run"

\* the state on top of the stack is not a state of the configuration
LexThrow ==
    /\ lexpc = "run"
    /\ ~Eof(src, reader)
    /\ ~HasState(LexConfigs[cfg], Current(stack))
    /\ lexpc' = "threw"
    /\ UNCHANGED <<src, cfg, reader, stack, tokens, iters, lastScan, lastRule, nonLexVars>>

\* one iteration in which a rule matches
LexMatch ==
    /\ lexpc = "run"
    /\ ~Eof(src, reader)
    /\ HasState(LexConfigs[cfg], Current(stack))
    /\ LET c == LexConfigs[cfg]
           rules == c.states[Current(stack)]
           k == FirstMatch(c, rules, 1, src, reader.pos)
       IN  /\ k > 0
           /\ LET consumed == Scan(rules[k].match, c.charClasses, src, reader.pos)
              IN  /\ tokens' = Append(tokens, MatchToken(c, rules[k], src, reader, consumed))
                  /\ reader' = AdvanceN(src, reader, consumed)
                  /\ stack' = ApplyTransition(stack, rules[k])
                  /\ lastScan' = consumed
                  /\ lastRule' = k
    /\ iters' = iters + 1
    /\ UNCHANGED <<src, cfg, lexpc, nonLexVars>>

\* one iteration in which no rule matches
LexFallback ==
    /\ lexpc = "run"
    /\ ~Eof(src, reader)
    /\ HasState(LexConfigs[cfg], Current(stack))
    /\ LET c == LexConfigs[cfg]
       IN  FirstMatch(c, c.states[Current(stack)], 1, src, reader.pos) = 0
    /\ tokens' = Append(tokens, ErrorToken(src, reader))
    /\ reader' = Advance(src, reader)
    /\ lastScan' = 0
    /\ lastRule' = 0
    /\ iters' = iters + 1
    /\ UNCHANGED <<src, cfg, stack, lexpc, nonLexVars>>

\* the loop ends at EOF and the tokens are returned
LexReturn ==
    /\ lexpc = "run"
    /\ Eof(src, reader)
    /\ lexpc' = "done"
    /\ UNCHANGED <<src, cfg, reader, stack, tokens, iters, lastScan, lastRule, nonLexVars>>

LexNext == LexThrow \/ LexMatch \/ LexFallback \/ LexReturn

-----------------------------------------------------------------------------
(* The profile registry (profiles/index.ts).  A profile is a record; its   *)
(* id stands for the identity of the object, so that two profiles of the   *)
(* same name are different values.                                         *)

Profile(id, name, fileExtensions) ==
    [id |-> id, name |-> name, fileExtensions |-> fileExtensions]

\* builtinProfiles, in order
BuiltinProfiles ==
    << Profile(1, "json", <<".json">>),
       Profile(2, "css", <<".css">>),
       Profile(3, "scss", <<".scss">>),
       Profile(4, "python", <<".py", ".pyi", ".pyw">>),
       Profile(5, "go", <<".go">>),
       Profile(6, "javascript", <<".js", ".mjs", ".cjs", ".jsx">>),
       Profile(7, "typescript", <<".ts", ".mts", ".cts", ".tsx">>),
       Profile(8, "cpp", <<".cpp", ".hpp", ".cc", ".hh", ".cxx", ".hxx", ".h">>),
       Profile(9, "html", <<".html", ".htm">>),
       Profile(10, "markdown", <<".md", ".markdown", ".mdx">>),
       Profile(11, "yaml", <<".yaml", ".yml">>),
       Profile(12, "xml", <<".xml", ".xsd", ".xsl", ".xslt", ".svg">>),
       Profile(13, "java", <<".java">>),
       Profile(14, "csharp", <<".cs", ".csx">>),
       Profile(15, "rust", <<".rs">>),
       Profile(16, "ruby", <<".rb", ".rake", ".gemspec">>),
       Profile(17, "php", <<".php", ".phtml", ".php8">>),
       Profile(18, "kotlin", <<".kt", ".kts">>),
       Profile(19, "swift", <<".swift">>),
       Profile(20, "shell", <<".sh", ".bash", ".zsh", ".ksh">>),
       Profile(21, "bash", <<".bash">>),
       Profile(22, "sql", <<".sql">>),
       Profile(23, "toml", <<".toml">>) >>

\* the profiles user code registers in the model
UserProfiles ==
    { Profile(101, "toytest", <<".toy">>),
      Profile(102, "toytest", <<".TOY", ".t2">>),
      Profile(103, "other", <<".t2", ".Toy">>),
      Profile(104, ".toy", <<>>),
      Profile(105, "json", <<".json">>) }

\* the identifiers user code looks up
LookupKeys ==
    {"toytest", "other", ".toy", ".TOY", ".Toy", ".t2", ".T2", "json", ".json",
     ".JSON", "TOYTEST", "nolang", ".bash"}

\* the extensions of the built-in profiles, each with its upper-case form
BuiltinCase ==
    { <<".json", ".JSON">>, <<".css", ".CSS">>, <<".scss", ".SCSS">>,
      <<".py", ".PY">>, <<".pyi", ".PYI">>, <<".pyw", ".PYW">>,
      <<".go", ".GO">>, <<".js", ".JS">>, <<".mjs", ".MJS">>,
      <<".cjs", ".CJS">>, <<".jsx", ".JSX">>, <<".ts", ".TS">>,
      <<".mts", ".MTS">>, <<".cts", ".CTS">>, <<".tsx", ".TSX">>,
      <<".cpp", ".CPP">>, <<".hpp", ".HPP">>, <<".cc", ".CC">>,
      <<".hh", ".HH">>, <<".cxx", ".CXX">>, <<".hxx", ".HXX">>,
      <<".h", ".H">>, <<".html", ".HTML">>, <<".htm", ".HTM">>,
      <<".md", ".MD">>, <<".markdown", ".MARKDOWN">>, <<".mdx", ".MDX">>,
      <<".yaml", ".YAML">>, <<".yml", ".YML">>, <<".xml", ".XML">>,
      <<".xsd", ".XSD">>, <<".xsl", ".XSL">>, <<".xslt", ".XSLT">>,
      <<".svg", ".SVG">>, <<".java", ".JAVA">>, <<".cs", ".CS">>,
      <<".csx", ".CSX">>, <<".rs", ".RS">>, <<".rb", ".RB">>,
      <<".rake", ".RAKE">>, <<".gemspec", ".GEMSPEC">>, <<".php", ".PHP">>,
      <<".phtml", ".PHTML">>, <<".php8", ".PHP8">>, <<".kt", ".KT">>,
      <<".kts", ".KTS">>, <<".swift", ".SWIFT">>, <<".sh", ".SH">>,
      <<".bash", ".BASH">>, <<".zsh", ".ZSH">>, <<".ksh", ".KSH">>,
      <<".sql", ".SQL">>, <<".toml", ".TOML">> }

\* String.prototype.toUpperCase on the extensions of the built-in profiles
ToUpperCase(str) ==
    IF \E p \in BuiltinCase : p[1] = str
    THEN (CHOOSE p \in BuiltinCase : p[1] = str)[2]
    ELSE str

\* String.prototype.toLowerCase on the strings of the model
ToLowerCase(str) ==
    CASE str = ".TOY" -> ".toy"
      [] str = ".Toy" -> ".toy"
      [] str = ".T2" -> ".t2"
      [] str = "TOYTEST" -> "toytest"
      [] str = "Symbols" -> "symbols"
      [] \E p \in BuiltinCase : p[2] = str -> (CHOOSE p \in BuiltinCase : p[2] = str)[1]
      [] OTHER -> str

Undefined == [id |-> 0, name |-> "undefined", fileExtensions |-> <<>>]

\* Map.prototype.get
MapGet(map, key) == IF key \in DOMAIN map THEN map[key] ELSE Undefined

\* Map.prototype.set
MapSet(map, key, value) == [k \in DOMAIN map \cup {key} |-> IF k = key THEN value ELSE map[k]]

\* the loop of registerProfile over profile.fileExtensions
RECURSIVE SetExtensions(_, _, _)
SetExtensions(map, profile, i) ==
    IF i > Len(profile.fileExtensions) THEN map
    ELSE SetExtensions(MapSet(map, ToLowerCase(profile.fileExtensions[i]), profile),
                       profile, i + 1)

\* the two maps after registerProfile(profile)
RegisterInto(maps, profile) ==
    [byName |-> MapSet(maps.byName, profile.name, profile),
     byExt |-> SetExtensions(maps.byExt, profile, 1)]

\* the for loop at module load
RECURSIVE RegisterAll(_, _, _)
RegisterAll(maps, list, i) ==
    IF i > Len(list) THEN maps ELSE RegisterAll(RegisterInto(maps, list[i]), list, i + 1)

EmptyMap == [k \in {} |-> Undefined]

\* mutant: the query is not lower-cased
GetProfileIn_CaseSensitive(byName, byExt, nameOrExt) ==
    IF nameOrExt \in DOMAIN byName THEN byName[nameOrExt]
    ELSE MapGet(byExt, nameOrExt)

\* getProfile over the given maps
GetProfileIn(byName, byExt, nameOrExt) ==
    IF nameOrExt \in DOMAIN byName THEN byName[nameOrExt]
    ELSE MapGet(byExt, ToLowerCase(nameOrExt))

GetProfile(nameOrExt) == GetProfileIn(profilesByName, profilesByExtension, nameOrExt)

UnknownLanguage(language) == [kind |-> "threw", error |-> "Unknown language", id |-> language]

\* mutant: the missing profile is not checked for, and reading its lexer fails
ResolveLanguage_Unchecked(language) ==
    LET profile == GetProfile(language)
    IN  IF profile = Undefined
          THEN [kind |-> "threw", error |-> "TypeError", id |-> "lexer"]
          ELSE [kind |-> "profile", profile |-> profile]

\* resolveLanguage (index.ts): the profile, or the error thrown
ResolveLanguage(language) ==
    LET profile == GetProfile(language)
    IN  IF profile = Undefined THEN UnknownLanguage(language)
        ELSE [kind |-> "profile", profile |-> profile]

\* the registry after module load
RegInit ==
    LET maps == RegisterAll([byName |-> EmptyMap, byExt |-> EmptyMap], BuiltinProfiles, 1)
    IN  /\ profilesByName = maps.byName
        /\ profilesByExtension = maps.byExt
        /\ lastCall = [op |-> "load", arg |-> "", result |-> "void"]

RegisterProfile(profile) ==
    /\ LET maps == RegisterInto([byName |-> profilesByName, byExt |-> profilesByExtension],
                                profile)
       IN  /\ profilesByName' = maps.byName
           /\ profilesByExtension' = maps.byExt
    /\ lastCall' = [op |-> "registerProfile", arg |-> profile, result |-> "void"]

GetProfileCall(key) ==
    /\ lastCall' = [op |-> "getProfile", arg |-> key, result |-> GetProfile(key)]
    /\ UNCHANGED <<profilesByName, profilesByExtension>>

\* tokenize(source, language) of the facade; a returned token list is
\* represented by the profile whose lexer produced it
Tokenize(language) ==
    /\ LET resolved == ResolveLanguage(language)
       IN  lastCall' = [op |-> "tokenize", arg |-> language,
                        result |-> IF resolved.kind = "threw" THEN resolved
                                   ELSE [kind |-> "tokens", of |-> resolved.profile]]
    /\ UNCHANGED <<profilesByName, profilesByExtension>>

\* extractSymbols(source, language) of the facade
ExtractSymbols(language) ==
    /\ LET resolved == ResolveLanguage(language)
       IN  lastCall' = [op |-> "extractSymbols", arg |-> language,
                        result |-> IF resolved.kind = "threw" THEN resolved
                                   ELSE [kind |-> "symbols", of |-> resolved.profile]]
    /\ UNCHANGED <<profilesByName, profilesByExtension>>

RegNext ==
    \/ \E profile \in UserProfiles : RegisterProfile(profile) /\ UNCHANGED nonRegVars
    \/ \E key \in LookupKeys : GetProfileCall(key) /\ UNCHANGED nonRegVars
    \/ \E key \in LookupKeys : Tokenize(key) /\ UNCHANGED nonRegVars
    \/ \E key \in LookupKeys : ExtractSymbols(key) /\ UNCHANGED nonRegVars

\* no tokenize call is running
LexIdle ==
    /\ src = <<>>
    /\ cfg = 1
    /\ reader = NewReader
    /\ stack = <<>>
    /\ tokens = <<>>
    /\ iters = 0
    /\ lastScan = 0
    /\ lastRule = 0
    /\ lexpc = "idle"

-----------------------------------------------------------------------------
(* The block tracker: findBlockSpans (parser/index.ts).  Indices are the   *)
(* 0-based token indices of the source.                                    *)

BlockRule(name, open, close) == [name |-> name, open |-> open, close |-> close]

\* the block rules and token values the model draws from
BlockRuleUniverse ==
    {BlockRule(n, o, c) : n \in {"A", "B"}, o \in {"(", "["}, c \in {")", "]"}}
BlockValues == {"(", "[", ")", "]", "x"}

\* openToRule.get(val) after the loop of set calls: the index of the last rule
\* whose open literal is val, or 0
RECURSIVE LastRuleWith(_, _, _, _)
LastRuleWith(rules, field, val, i) ==
    IF i = 0 THEN 0
    ELSE IF rules[i][field] = val THEN i
    ELSE LastRuleWith(rules, field, val, i - 1)

OpenToRule(rules, val) == LastRuleWith(rules, "open", val, Len(rules))
CloseToRule(rules, val) == LastRuleWith(rules, "close", val, Len(rules))

\* the search from the top of the stack: the position of the nearest frame of
\* that name (1-based), or 0
RECURSIVE FindFrame(_, _, _)
FindFrame(stk, name, j) ==
    IF j = 0 THEN 0
    ELSE IF stk[j].name = name THEN j
    ELSE FindFrame(stk, name, j - 1)

\* spans.sort((a, b) => a.openIndex - b.openIndex): a stable insertion sort
RECURSIVE InsertByOpen(_, _)
InsertByOpen(sorted, span) ==
    IF sorted = <<>> THEN <<span>>
    ELSE IF sorted[Len(sorted)].openIndex <= span.openIndex THEN Append(sorted, span)
    ELSE Append(InsertByOpen(SubSeq(sorted, 1, Len(sorted) - 1), span), sorted[Len(sorted)])

RECURSIVE SortByOpenIndex(_)
SortByOpenIndex(spans) ==
    IF spans = <<>> THEN <<>>
    ELSE InsertByOpen(SortByOpenIndex(SubSeq(spans, 1, Len(spans) - 1)), spans[Len(spans)])

BtInit ==
    /\ btRules \in SeqsUpTo(BlockRuleUniverse, MaxBlockRules)
    /\ btTokens \in SeqsUpTo(BlockValues, MaxBlockTokens)
    /\ btI = 0
    /\ btStack = <<>>
    /\ btSpans = <<>>
    /\ btpc = "run"

BtVal == btTokens[btI + 1]

\* the token is an open literal
BtOpen ==
    /\ btpc = "run"
    /\ btI < Len(btTokens)
    /\ OpenToRule(btRules, BtVal) # 0
    /\ btStack' = Append(btStack, [name |-> btRules[OpenToRule(btRules, BtVal)].name,
                                   openIndex |-> btI, depth |-> Len(btStack)])
    /\ btI' = btI + 1
    /\ UNCHANGED <<btTokens, btRules, btSpans, btpc>>

\* mutant: the matched frame stays on the stack
Truncate_KeepFrame(stk, j) == SubSeq(stk, 1, j)

\* stack.length = j for the 0-based j of the code; here j is 1-based
Truncate(stk, j) == SubSeq(stk, 1, j - 1)

\* the token is a close literal and a frame of its rule's name is on the stack
BtClose ==
    /\ btpc = "run"
    /\ btI < Len(btTokens)
    /\ OpenToRule(btRules, BtVal) = 0
    /\ CloseToRule(btRules, BtVal) # 0
    /\ LET j == FindFrame(btStack, btRules[CloseToRule(btRules, BtVal)].name, Len(btStack))
       IN  /\ j # 0
           /\ btSpans' = Append(btSpans, [name |-> btStack[j].name,
                                          openIndex |-> btStack[j].openIndex,
                                          closeIndex |-> btI,
                                          depth |-> btStack[j].depth])
           /\ btStack' = Truncate(btStack, j)
    /\ btI' = btI + 1
    /\ UNCHANGED <<btTokens, btRules, btpc>>

\* the token is a close literal and no frame of its rule's name is on the stack
BtDropClose ==
    /\ btpc = "run"
    /\ btI < Len(btTokens)
    /\ OpenToRule(btRules, BtVal) = 0
    /\ CloseToRule(btRules, BtVal) # 0
    /\ FindFrame(btStack, btRules[CloseToRule(btRules, BtVal)].name, Len(btStack)) = 0
    /\ btI' = btI + 1
    /\ UNCHANGED <<btTokens, btRules, btStack, btSpans, btpc>>

\* the token is neither
BtOther ==
    /\ btpc = "run"
    /\ btI < Len(btTokens)
    /\ OpenToRule(btRules, BtVal) = 0
    /\ CloseToRule(btRules, BtVal) = 0
    /\ btI' = btI + 1
    /\ UNCHANGED <<btTokens, btRules, btStack, btSpans, btpc>>

\* the loop has ended: the spans are sorted and returned
BtReturn ==
    /\ btpc = "run"
    /\ btI = Len(btTokens)
    /\ btSpans' = SortByOpenIndex(btSpans)
    /\ btpc' = "done"
    /\ UNCHANGED <<btTokens, btRules, btI, btStack>>

BtNext ==
    \/ BtOpen /\ UNCHANGED nonBtVars
    \/ BtClose /\ UNCHANGED nonBtVars
    \/ BtDropClose /\ UNCHANGED nonBtVars
    \/ BtOther /\ UNCHANGED nonBtVars
    \/ BtReturn /\ UNCHANGED nonBtVars

\* no findBlockSpans call is running
BtIdle ==
    /\ btTokens = <<>>
    /\ btRules = <<>>
    /\ btI = 0
    /\ btStack = <<>>
    /\ btSpans = <<>>
    /\ btpc = "idle"

-----------------------------------------------------------------------------
(* The structure parser: extractSymbolsFromProfile (structure-parser.ts)    *)
(* tokenizes the source, finds the block spans and calls detectSymbols.     *)

\* CompiledLexer.tokenize run to its end, for a configuration in which every
\* state a rule pushes or switches to is defined
RECURSIVE TokenizeLoop(_, _, _, _, _)
TokenizeLoop(c, s, r, stk, toks) ==
    IF Eof(s, r) THEN toks
    ELSE LET rules == c.states[Current(stk)]
             k == FirstMatch(c, rules, 1, s, r.pos)
         IN  IF k > 0
             THEN LET consumed == Scan(rules[k].match, c.charClasses, s, r.pos)
                  IN  TokenizeLoop(c, s, AdvanceN(s, r, consumed),
                                   ApplyTransition(stk, rules[k]),
                                   Append(toks, MatchToken(c, rules[k], s, r, consumed)))
             ELSE TokenizeLoop(c, s, Advance(s, r), stk, Append(toks, ErrorToken(s, r)))

TokenizeWithConfig(s, c) ==
    TokenizeLoop(c, s, NewReader, NewStateMachine(c.initialState), <<>>)

\* findBlockSpans run to its end on the values vals
RECURSIVE BlockSpansLoop(_, _, _, _, _)
BlockSpansLoop(rules, vals, i, stk, spans) ==
    IF i >= Len(vals) THEN SortByOpenIndex(spans)
    ELSE LET val == vals[i + 1]
             o == OpenToRule(rules, val)
             c == CloseToRule(rules, val)
             j == IF c = 0 THEN 0 ELSE FindFrame(stk, rules[c].name, Len(stk))
         IN  IF o # 0
             THEN BlockSpansLoop(rules, vals, i + 1,
                      Append(stk, [name |-> rules[o].name, openIndex |-> i,
                                   depth |-> Len(stk)]), spans)
             ELSE IF j # 0
             THEN BlockSpansLoop(rules, vals, i + 1, SubSeq(stk, 1, j - 1),
                      Append(spans, [name |-> stk[j].name, openIndex |-> stk[j].openIndex,
                                     closeIndex |-> i, depth |-> stk[j].depth]))
             ELSE BlockSpansLoop(rules, vals, i + 1, stk, spans)

FindBlockSpans(toks, rules) ==
    BlockSpansLoop(rules, [k \in 1..Len(toks) |-> toks[k].value], 0, <<>>, <<>>)

\* findNextBlock: the position in spans (1-based) of the first span of that
\* name with openIndex >= afterIndex, or 0
RECURSIVE FindNextBlock(_, _, _, _)
FindNextBlock(spans, afterIndex, blockName, k) ==
    IF k > Len(spans) THEN 0
    ELSE IF spans[k].openIndex >= afterIndex /\ spans[k].name = blockName THEN k
    ELSE FindNextBlock(spans, afterIndex, blockName, k + 1)

\* ---- token pattern steps (schema/structure.ts); <<>> is an absent value,
\* "" an absent capture ----
TokenStep(token, value, capture) ==
    [kind |-> "token", token |-> token, value |-> value, capture |-> capture]
SkipStep(hasMaxTokens, maxTokens) ==
    [kind |-> "skip", hasMaxTokens |-> hasMaxTokens, maxTokens |-> maxTokens]
OptionalStep(step) == [kind |-> "optional", optional |-> step]
AnyOfStep(alts) == [kind |-> "anyOf", anyOf |-> alts]

SymbolRule(name, kind, pattern, hasBody, bodyStyle) ==
    [name |-> name, kind |-> kind, pattern |-> pattern, hasBody |-> hasBody,
     bodyStyle |-> bodyStyle]

\* step.maxTokens ?? 50
DefaultMaxTokens == 50

Min(a, b) == IF a <= b THEN a ELSE b

\* the filtered array: the original indices (0-based) of the tokens whose type
\* is not a skip token
RECURSIVE FilteredFrom(_, _, _)
FilteredFrom(toks, skipTokens, i) ==
    IF i >= Len(toks) THEN <<>>
    ELSE IF toks[i + 1].type \in skipTokens THEN FilteredFrom(toks, skipTokens, i + 1)
    ELSE <<i>> \o FilteredFrom(toks, skipTokens, i + 1)

Filtered(toks, skipTokens) == FilteredFrom(toks, skipTokens, 0)

MatchTokenStep(token, step) ==
    /\ token.type = step.token
    /\ (step.value # <<>> => token.value = step.value)

\* captures: [values, indices], two records keyed by capture name
NoCaptures == [values |-> <<>>, indices |-> <<>>]

Capture(caps, name, value, index) ==
    [values |-> (name :> value) @@ caps.values,
     indices |-> (name :> index) @@ caps.indices]

\* matchSingleStep: [ok, caps]; the captures change only when the step matches
RECURSIVE MatchSingleStep(_, _, _, _)
RECURSIVE SomeAlt(_, _, _, _, _)
MatchSingleStep(token, step, caps, index) ==
    IF step.kind = "token"
    THEN IF ~MatchTokenStep(token, step) THEN [ok |-> FALSE, caps |-> caps]
         ELSE [ok |-> TRUE,
               caps |-> IF step.capture # ""
                        THEN Capture(caps, step.capture, token.value, index)
                        ELSE caps]
    ELSE IF step.kind = "anyOf" THEN SomeAlt(token, step.anyOf, 1, caps, index)
    ELSE [ok |-> FALSE, caps |-> caps]

\* the first alternative, from position k, that matches
SomeAlt(token, alts, k, caps, index) ==
    IF k > Len(alts) THEN [ok |-> FALSE, caps |-> caps]
    ELSE LET m == MatchSingleStep(token, alts[k], caps, index)
         IN  IF m.ok THEN m ELSE SomeAlt(token, alts, k + 1, caps, index)

\* mutant: the scan runs to the end of the tokens
RECURSIVE SkipScan_Unbounded(_, _, _, _, _, _)
SkipScan_Unbounded(toks, filtered, nextStep, caps, si, limit) ==
    IF si >= Len(filtered) THEN -1
    ELSE IF MatchSingleStep(toks[filtered[si + 1] + 1], nextStep, caps, si).ok THEN si
    ELSE SkipScan_Unbounded(toks, filtered, nextStep, caps, si + 1, limit)

\* the skip loop: the first si in idx..limit-1 at which nextStep matches, or -1
RECURSIVE SkipScan(_, _, _, _, _, _)
SkipScan(toks, filtered, nextStep, caps, si, limit) ==
    IF si >= limit THEN -1
    ELSE IF MatchSingleStep(toks[filtered[si + 1] + 1], nextStep, caps, si).ok THEN si
    ELSE SkipScan(toks, filtered, nextStep, caps, si + 1, limit)

NoMatch == [ok |-> FALSE]

\* the loop of tryMatch from pattern position pi (1-based) at filtered index idx
RECURSIVE TryLoop(_, _, _, _, _, _, _)
TryLoop(toks, filtered, startIdx, pattern, pi, idx, caps) ==
    IF pi > Len(pattern)
    THEN [ok |-> TRUE, startIndex |-> startIdx, endIndex |-> idx,
          captures |-> caps.values, captureIndices |-> caps.indices]
    ELSE IF idx >= Len(filtered) THEN NoMatch
    ELSE LET step == pattern[pi]
             token == toks[filtered[idx + 1] + 1]
         IN  CASE step.kind = "skip" ->
                    IF pi + 1 > Len(pattern) THEN NoMatch
                    ELSE LET maxTokens == IF step.hasMaxTokens THEN step.maxTokens
                                          ELSE DefaultMaxTokens
                             limit == Min(idx + maxTokens, Len(filtered))
                             si == SkipScan(toks, filtered, pattern[pi + 1], caps, idx, limit)
                         IN  IF si < 0 THEN NoMatch
                             ELSE TryLoop(toks, filtered, startIdx, pattern, pi + 2, si + 1,
                                          MatchSingleStep(toks[filtered[si + 1] + 1],
                                                          pattern[pi + 1], caps, si).caps)
               [] step.kind = "optional" ->
                    LET m == MatchSingleStep(token, step.optional, caps, idx)
                    IN  TryLoop(toks, filtered, startIdx, pattern, pi + 1,
                                IF m.ok THEN idx + 1 ELSE idx, m.caps)
               [] step.kind = "anyOf" ->
                    LET m == SomeAlt(token, step.anyOf, 1, caps, idx)
                    IN  IF ~m.ok THEN NoMatch
                        ELSE TryLoop(toks, filtered, startIdx, pattern, pi + 1, idx + 1, m.caps)
               [] step.kind = "token" ->
                    IF ~MatchTokenStep(token, step) THEN NoMatch
                    ELSE TryLoop(toks, filtered, startIdx, pattern, pi + 1, idx + 1,
                                 IF step.capture # ""
                                 THEN Capture(caps, step.capture, token.value, idx)
                                 ELSE caps)
               [] OTHER -> NoMatch

TryMatch(toks, filtered, startIdx, pattern) ==
    TryLoop(toks, filtered, startIdx, pattern, 1, startIdx, NoCaptures)

\* ---- end-index helpers (symbol-detector.ts) ----

\* findIndentationEndIndex: the loop from token i
RECURSIVE IndentationLoop(_, _, _, _, _)
IndentationLoop(toks, baseIndent, i, lastContentIndex, foundBody) ==
    IF i >= Len(toks) THEN lastContentIndex
    ELSE LET tok == toks[i + 1]
             col == tok.range.start.column
         IN  IF tok.category = "whitespace" \/ tok.category = "newline"
             THEN IndentationLoop(toks, baseIndent, i + 1, lastContentIndex, foundBody)
             ELSE IF ~foundBody
             THEN IF col > baseIndent
                  THEN IndentationLoop(toks, baseIndent, i + 1, i, TRUE)
                  ELSE lastContentIndex
             ELSE IF col <= baseIndent THEN lastContentIndex
             ELSE IndentationLoop(toks, baseIndent, i + 1, i, TRUE)

FindIndentationEndIndex(toks, afterIndex, baseIndent) ==
    IndentationLoop(toks, baseIndent, afterIndex + 1, afterIndex, FALSE)

\* findStatementEndIndex: the loop from token i
RECURSIVE StatementLoop(_, _, _, _)
StatementLoop(toks, i, endIndex, depth) ==
    IF i >= Len(toks) THEN endIndex
    ELSE LET tok == toks[i + 1]
             d1 == IF tok.value \in {<<"{">>, <<"(">>, <<"[">>} THEN depth + 1 ELSE depth
             d2 == IF tok.value \in {<<"}">>, <<")">>, <<"]">>} THEN d1 - 1 ELSE d1
         IN  IF d2 = 0 /\ tok.value = <<";">> THEN i
             ELSE IF d2 = 0 /\ tok.category = "newline" THEN endIndex
             ELSE StatementLoop(toks, i + 1,
                                IF tok.category # "whitespace" /\ tok.category # "newline"
                                THEN i ELSE endIndex,
                                d2)

FindStatementEndIndex(toks, fromIndex) == StatementLoop(toks, fromIndex + 1, fromIndex, 0)

\* findMarkupBlockEndIndex: the loop from token i
RECURSIVE MarkupLoop(_, _, _, _)
MarkupLoop(toks, i, endIndex, blankLineCount) ==
    IF i >= Len(toks) THEN endIndex
    ELSE LET tok == toks[i + 1]
         IN  IF tok.category = "newline"
             THEN LET blank == IF i + 1 < Len(toks) /\ toks[i + 2].category = "newline"
                               THEN blankLineCount + 1 ELSE 0
                  IN  IF blank > 0 THEN endIndex
                      ELSE MarkupLoop(toks, i + 1, endIndex, blank)
             ELSE IF tok.category # "whitespace" THEN MarkupLoop(toks, i + 1, i, 0)
             ELSE MarkupLoop(toks, i + 1, endIndex, blankLineCount)

FindMarkupBlockEndIndex(toks, fromIndex) == MarkupLoop(toks, fromIndex + 1, fromIndex, 0)

\* tokens[i] is defined
InTokens(toks, i) == i >= 0 /\ i < Len(toks)

\* the end of the symbol's content (detectSymbols lines 323-345)
EndOriginalIndex(toks, spans, rule, startOriginalIndex, lastMatchOriginalIndex) ==
    IF rule.hasBody
    THEN CASE rule.bodyStyle = "braces" ->
                LET b == FindNextBlock(spans, lastMatchOriginalIndex, "braces", 1)
                IN  IF b # 0 THEN spans[b].closeIndex ELSE lastMatchOriginalIndex
           [] rule.bodyStyle = "indentation" ->
                FindIndentationEndIndex(toks, lastMatchOriginalIndex,
                                        toks[startOriginalIndex + 1].range.start.column)
           [] rule.bodyStyle = "markup-block" ->
                FindMarkupBlockEndIndex(toks, lastMatchOriginalIndex)
           [] OTHER -> lastMatchOriginalIndex
    ELSE FindStatementEndIndex(toks, lastMatchOriginalIndex)

\* the symbol detectSymbols pushes for a match of the rule
MakeSymbol(toks, filtered, spans, rule, match) ==
    LET startOriginalIndex == filtered[match.startIndex + 1]
        lastMatchOriginalIndex ==
            IF match.endIndex - 1 >= 0 /\ match.endIndex - 1 < Len(filtered)
            THEN filtered[match.endIndex] ELSE startOriginalIndex
        endOriginalIndex ==
            EndOriginalIndex(toks, spans, rule, startOriginalIndex, lastMatchOriginalIndex)
        nameOriginalIndex ==
            IF "name" \in DOMAIN match.captureIndices
            THEN filtered[match.captureIndices["name"] + 1] ELSE startOriginalIndex
        nameToken == IF InTokens(toks, nameOriginalIndex) THEN toks[nameOriginalIndex + 1]
                     ELSE toks[startOriginalIndex + 1]
        startToken == toks[startOriginalIndex + 1]
        endToken == IF InTokens(toks, endOriginalIndex) THEN toks[endOriginalIndex + 1]
                    ELSE toks[lastMatchOriginalIndex + 1]
    IN  [name |-> IF "name" \in DOMAIN match.captures THEN match.captures["name"]
                  ELSE rule.name,
         kind |-> rule.kind,
         nameRange |-> nameToken.range,
         contentRange |-> [start |-> startToken.range.start, end |-> endToken.range.end]]

\* the comparator of the final sort
CompareSymbols(a, b) ==
    IF a.contentRange.start.line = b.contentRange.start.line
    THEN a.contentRange.start.column - b.contentRange.start.column
    ELSE a.contentRange.start.line - b.contentRange.start.line

\* symbols.sort(...): a stable insertion sort
RECURSIVE InsertSymbol(_, _)
InsertSymbol(sorted, sym) ==
    IF sorted = <<>> THEN <<sym>>
    ELSE IF CompareSymbols(sorted[Len(sorted)], sym) <= 0 THEN Append(sorted, sym)
    ELSE Append(InsertSymbol(SubSeq(sorted, 1, Len(sorted) - 1), sym), sorted[Len(sorted)])

RECURSIVE SortSymbols(_)
SortSymbols(syms) ==
    IF syms = <<>> THEN <<>>
    ELSE InsertSymbol(SortSymbols(SubSeq(syms, 1, Len(syms) - 1)), syms[Len(syms)])

\* ---- the profiles the model extracts symbols with ----

SymAlphabet == {"f", "a", LF, "{", "}"}

\* the keyword "f", one-letter identifiers, braces and newlines
SymLexer(skipTokens) ==
    [initialState |-> "main",
     skipTokens |-> skipTokens,
     charClasses |-> [identPart |-> Letter],
     tokenTypes |-> [keyword |-> "keyword", identifier |-> "identifier",
                     punctuation |-> "punctuation", newline |-> "newline"],
     states |->
       [main |-> << Rule(KeywordsM(<< <<"f">> >>), "keyword"),
                    Rule(CharSeqM(Letter, FALSE, Letter), "identifier"),
                    Rule(StringM(<< <<"{">>, <<"}">> >>), "punctuation"),
                    Rule(CharSeqM(Newline, FALSE, Newline), "newline") >>]]

Braces == << [name |-> "braces", open |-> <<"{">>, close |-> <<"}">>] >>

Keyword == TokenStep("keyword", <<"f">>, "")
Name == TokenStep("identifier", <<>>, "name")

\* rule names are written as character sequences, as token values are
SymbolProfiles ==
    << \* a declaration with a brace body, then a statement without body
       [lexer |-> SymLexer({"newline"}),
        structure |-> [blocks |-> Braces,
                       symbols |-> << SymbolRule(<<"F">>, "function", <<Keyword, Name>>,
                                                 TRUE, "braces"),
                                      SymbolRule(<<"V">>, "variable", <<Name>>,
                                                 FALSE, "") >>]],
       \* a pattern whose only step is optional, without body
       [lexer |-> SymLexer({"newline"}),
        structure |-> [blocks |-> Braces,
                       symbols |-> << SymbolRule(<<"O">>, "variable",
                                                 <<OptionalStep(Keyword)>>, FALSE, "") >>]],
       \* a pattern of two optional steps, with a body closed by a keyword
       [lexer |-> SymLexer({"newline"}),
        structure |-> [blocks |-> Braces,
                       symbols |-> << SymbolRule(<<"E">>, "class",
                                                 <<OptionalStep(Keyword), OptionalStep(Name)>>,
                                                 TRUE, "end-keyword") >>]],
       \* a bounded skip up to the opening brace
       [lexer |-> SymLexer({"newline"}),
        structure |-> [blocks |-> Braces,
                       symbols |-> << SymbolRule(<<"S">>, "function",
                                                 <<Keyword, SkipStep(TRUE, 2),
                                                   TokenStep("punctuation", <<"{">>, "")>>,
                                                 TRUE, "braces") >>]],
       \* a choice, with an indentation body
       [lexer |-> SymLexer({"newline"}),
        structure |-> [blocks |-> <<>>,
                       symbols |-> << SymbolRule(<<"I">>, "class",
                                                 <<AnyOfStep(<<Keyword, Name>>)>>,
                                                 TRUE, "indentation") >>]],
       \* newlines are not skipped: a trailing skip, an unbounded skip with a
       \* markup body
       [lexer |-> SymLexer({}),
        structure |-> [blocks |-> <<>>,
                       symbols |-> << SymbolRule(<<"T">>, "other",
                                                 <<Keyword, SkipStep(FALSE, 0)>>,
                                                 FALSE, ""),
                                      SymbolRule(<<"M">>, "section",
                                                 <<Keyword, SkipStep(FALSE, 0), Name>>,
                                                 TRUE, "markup-block") >>]],
       \* two rules whose patterns can meet on one token
       [lexer |-> SymLexer({"newline"}),
        structure |-> [blocks |-> Braces,
                       symbols |-> << SymbolRule(<<"B">>, "other",
                                                 <<TokenStep("punctuation", <<"{">>, ""), Name>>,
                                                 FALSE, ""),
                                      SymbolRule(<<"N">>, "other",
                                                 <<Name, TokenStep("punctuation", <<"{">>, "")>>,
                                                 FALSE, "") >>]] >>

\* ---- extractSymbolsFromProfile as a state machine ----

SymRules == SymbolProfiles[symProfile].structure.symbols
SymFiltered == Filtered(symTokens, SymbolProfiles[symProfile].lexer.skipTokens)

SymInit ==
    /\ symSrc \in SeqsUpTo(SymAlphabet, MaxSymSrcLen)
    /\ symProfile \in 1..Len(SymbolProfiles)
    /\ symTokens = TokenizeWithConfig(symSrc, SymbolProfiles[symProfile].lexer)
    /\ symSpans = FindBlockSpans(symTokens, SymbolProfiles[symProfile].structure.blocks)
    /\ symRule = 1
    /\ symFi = 0
    /\ symUsed = {}
    /\ symSymbols = <<>>
    /\ sympc = "run"

SymInLoop ==
    /\ sympc = "run"
    /\ symRule <= Len(SymRules)
    /\ symFi < Len(SymFiltered)

\* used.has(fi): continue
SymSkipUsed ==
    /\ SymInLoop
    /\ symFi \in symUsed
    /\ symFi' = symFi + 1
    /\ UNCHANGED <<symSrc, symProfile, symTokens, symSpans, symRule, symUsed, symSymbols, sympc>>

\* tryMatch returns null: continue
SymNoMatch ==
    /\ SymInLoop
    /\ symFi \notin symUsed
    /\ ~TryMatch(symTokens, SymFiltered, symFi, SymRules[symRule].pattern).ok
    /\ symFi' = symFi + 1
    /\ UNCHANGED <<symSrc, symProfile, symTokens, symSpans, symRule, symUsed, symSymbols, sympc>>

\* tryMatch returns a match: the symbol is pushed and its tokens are claimed
SymEmit ==
    /\ SymInLoop
    /\ symFi \notin symUsed
    /\ LET match == TryMatch(symTokens, SymFiltered, symFi, SymRules[symRule].pattern)
       IN  /\ match.ok
           /\ symSymbols' = Append(symSymbols,
                  MakeSymbol(symTokens, SymFiltered, symSpans, SymRules[symRule], match))
           /\ symUsed' = symUsed \cup (match.startIndex .. match.endIndex - 1)
    /\ symFi' = symFi + 1
    /\ UNCHANGED <<symSrc, symProfile, symTokens, symSpans, symRule, sympc>>

\* the inner loop has ended: the next rule
SymNextRule ==
    /\ sympc = "run"
    /\ symRule <= Len(SymRules)
    /\ symFi >= Len(SymFiltered)
    /\ symRule' = symRule + 1
    /\ symFi' = 0
    /\ UNCHANGED <<symSrc, symProfile, symTokens, symSpans, symUsed, symSymbols, sympc>>

\* the outer loop has ended: the symbols are sorted and returned
SymReturn ==
    /\ sympc = "run"
    /\ symRule > Len(SymRules)
    /\ symSymbols' = SortSymbols(symSymbols)
    /\ sympc' = "done"
    /\ UNCHANGED <<symSrc, symProfile, symTokens, symSpans, symRule, symFi, symUsed>>

SymNext ==
    \/ SymSkipUsed /\ UNCHANGED nonSymVars
    \/ SymNoMatch /\ UNCHANGED nonSymVars
    \/ SymEmit /\ UNCHANGED nonSymVars
    \/ SymNextRule /\ UNCHANGED nonSymVars
    \/ SymReturn /\ UNCHANGED nonSymVars

\* no extractSymbolsFromProfile call is running
SymIdle ==
    /\ symSrc = <<>>
    /\ symProfile = 0
    /\ symTokens = <<>>
    /\ symSpans = <<>>
    /\ symRule = 0
    /\ symFi = 0
    /\ symUsed = {}
    /\ symSymbols = <<>>
    /\ sympc = "idle"

-----------------------------------------------------------------------------
(* A StateMachine under any sequence of calls *)

SmStates == {"main", "inner", "alt"}

\* the transition fields of a rule: any of push, pop and switchTo may be set
SmRules ==
    [push : {"", "inner"}, pop : BOOLEAN, switchTo : {"", "alt"}]

SmInit ==
    /\ \E s \in SmStates : smStack = NewStateMachine(s)
    /\ smCall = [op |-> "new", arg |-> "", before |-> <<>>]

SmPush ==
    /\ Len(smStack) < MaxSmDepth
    /\ \E s \in SmStates :
          /\ smStack' = Push(smStack, s)
          /\ smCall' = [op |-> "push", arg |-> s, before |-> smStack]

SmPop ==
    /\ smStack' = Pop(smStack)
    /\ smCall' = [op |-> "pop", arg |-> "", before |-> smStack]

SmSwitchTo ==
    \E s \in SmStates :
        /\ smStack' = SwitchTo(smStack, s)
        /\ smCall' = [op |-> "switchTo", arg |-> s, before |-> smStack]

SmApplyTransition ==
    \E rule \in SmRules :
        /\ rule.push # "" => Len(smStack) < MaxSmDepth
        /\ smStack' = ApplyTransition(smStack, rule)
        /\ smCall' = [op |-> "applyTransition", arg |-> rule, before |-> smStack]

SmNext ==
    \/ SmPush /\ UNCHANGED nonSmVars
    \/ SmPop /\ UNCHANGED nonSmVars
    \/ SmSwitchTo /\ UNCHANGED nonSmVars
    \/ SmApplyTransition /\ UNCHANGED nonSmVars

\* no StateMachine is under test
SmIdle ==
    /\ smStack = <<>>
    /\ smCall = [op |-> "idle", arg |-> "", before |-> <<>>]

-----------------------------------------------------------------------------
(* A CharReader under any sequence of advance, advanceN and scan calls *)

\* the arguments of advanceN
AdvanceCounts == 0..3

\* the named character classes of the matchers below
ReaderCharClasses == [identPart |-> Letter]

Quote == <<"'">>
Backslash == "\\"

\* each family is an alphabet for the sources and the matchers scanned on them
ReaderFamilies ==
    << \* lines and line terminators
       [alphabet |-> {"a", CR, LF},
        matchers |-> << LineM(<<"a">>),
                        StringM(<< <<"a">>, <<"a", "a">> >>),
                        CharSeqM(Letter, TRUE, Ref("identPart")),
                        PatternM("a+"),
                        SequenceM(<< StringM(<< <<"a">> >>), PatternM("\\r?\\n"),
                                     StringM(<< <<"a">> >>) >>),
                        SequenceM(<< SequenceM(<< CharSeqM(Newline, FALSE, Newline) >>),
                                     LineM(<<"a">>) >>) >>],
       \* keywords between word and non-word characters
       [alphabet |-> {"i", "f", " "},
        matchers |-> << KeywordsM(<< <<"i", "f">> >>),
                        KeywordsM(<< <<"i">>, <<"i", "f", "f">>, <<"i", "f">> >>),
                        KeywordsM(<< <<"f", " ", "f">>, <<"f">> >>) >>],
       \* quoted strings with and without escape, on one line or more
       [alphabet |-> {"'", Backslash, LF},
        matchers |-> << DelimitedM(Quote, Quote, Backslash, FALSE, FALSE),
                        DelimitedM(Quote, Quote, "", FALSE, FALSE),
                        DelimitedM(Quote, Quote, Backslash, TRUE, FALSE),
                        DelimitedM(Quote, Quote, "", TRUE, TRUE) >>],
       \* nested and flat blocks
       [alphabet |-> {"{", "}", CR},
        matchers |-> << DelimitedM(<<"{">>, <<"}">>, "", TRUE, TRUE),
                        DelimitedM(<<"{">>, <<"}">>, "", FALSE, TRUE),
                        DelimitedM(<<"{">>, <<"}">>, "", TRUE, FALSE),
                        DelimitedM(<<"{", "{">>, <<"}">>, "}", TRUE, TRUE) >>],
       \* hexadecimal and decimal integers with a separator
       [alphabet |-> {"0", "x", "_"},
        matchers |-> << NumberM(TRUE, FALSE, TRUE, FALSE, FALSE, FALSE, "_", <<>>),
                        NumberM(FALSE, FALSE, TRUE, FALSE, FALSE, FALSE, "_", << <<"x">> >>),
                        NumberM(TRUE, FALSE, FALSE, FALSE, FALSE, FALSE, "", <<>>) >>],
       \* floats with a separator
       [alphabet |-> {"1", ".", "_"},
        matchers |-> << NumberM(TRUE, TRUE, FALSE, FALSE, FALSE, FALSE, "_", <<>>),
                        NumberM(FALSE, TRUE, FALSE, FALSE, FALSE, FALSE, "", <<>>) >>],
       \* exponents and unit suffixes
       [alphabet |-> {"1", "e", "u"},
        matchers |-> << NumberM(TRUE, FALSE, FALSE, FALSE, FALSE, TRUE, "", << <<"u">>, <<"u", "1">> >>),
                        NumberM(FALSE, FALSE, TRUE, FALSE, FALSE, FALSE, "", <<>>) >>],
       \* octal and binary literals
       [alphabet |-> {"0", "b", "o"},
        matchers |-> << NumberM(TRUE, FALSE, FALSE, TRUE, TRUE, FALSE, "", <<>>),
                        NumberM(FALSE, FALSE, FALSE, TRUE, TRUE, FALSE, "0", <<>>) >> ] >>

RdMatchers == ReaderFamilies[rdFam].matchers

RdInit ==
    /\ rdFam \in 1..Len(ReaderFamilies)
    /\ rdSrc \in SeqsUpTo(ReaderFamilies[rdFam].alphabet, MaxReaderSrcLen)
    /\ rdReader = NewReader
    /\ rdCall = [op |-> "new", arg |-> 0, before |-> NewReader, result |-> <<>>]

\* reader.advance()
RdAdvance ==
    /\ rdReader' = Advance(rdSrc, rdReader)
    /\ rdCall' = [op |-> "advance", arg |-> 0, before |-> rdReader,
                  result |-> AdvanceChar(rdSrc, rdReader)]
    /\ UNCHANGED <<rdFam, rdSrc>>

\* reader.advanceN(n)
RdAdvanceN ==
    \E n \in AdvanceCounts :
        /\ rdReader' = AdvanceN(rdSrc, rdReader, n)
        /\ rdCall' = [op |-> "advanceN", arg |-> n, before |-> rdReader,
                      result |-> AdvanceNSlice(rdSrc, rdReader, n)]
        /\ UNCHANGED <<rdFam, rdSrc>>

\* fn(reader) for the compiled scan function fn of a matcher
RdScan ==
    \E k \in 1..Len(RdMatchers) :
        /\ rdReader' = ReaderAfter(RdMatchers[k], ReaderCharClasses, rdSrc, rdReader)
        /\ rdCall' = [op |-> "scan", arg |-> RdMatchers[k], before |-> rdReader,
                      result |-> Scan(RdMatchers[k], ReaderCharClasses, rdSrc, rdReader.pos)]
        /\ UNCHANGED <<rdFam, rdSrc>>

RdNext ==
    \/ RdAdvance /\ UNCHANGED nonRdVars
    \/ RdAdvanceN /\ UNCHANGED nonRdVars
    \/ RdScan /\ UNCHANGED nonRdVars

\* no CharReader is under test
RdIdle ==
    /\ rdFam = 0
    /\ rdSrc = <<>>
    /\ rdReader = NewReader
    /\ rdCall = [op |-> "idle", arg |-> 0, before |-> NewReader, result |-> <<>>]

-----------------------------------------------------------------------------
(* The command line: parseCliArgs, resolveLanguageInput, executeCli
   (cli/index.ts) *)

\* the words an argument can be
CliWords ==
    {"--help", "-h", "a.json", "A.JSON", "x.zz", "token", "Symbols", "-l",
     "--language", " json", " "}

\* process.argv: the node and script paths, then the arguments; a caller of
\* executeCli may also pass less
CliArgvs ==
    {<<>>, <<"node">>} \cup {<<"node", "cli">> \o a : a \in SeqsUpTo(CliWords, MaxCliArgs)}

\* what the analysis of a readable file can return
CliResults == SeqsUpTo({"item"}, MaxCliResult)

\* a variable that holds undefined
UndefinedString == "<undefined>"

\* path.extname on the words
Extname(file) ==
    CASE file = "a.json" -> ".json"
      [] file = "A.JSON" -> ".JSON"
      [] file = "x.zz" -> ".zz"
      [] OTHER -> ""

\* String.prototype.trim on the words
Trim(str) ==
    CASE str = " json" -> "json"
      [] str = " " -> ""
      [] OTHER -> str

\* argv.slice(2)
SliceArgs(argv) == IF Len(argv) <= 2 THEN <<>> ELSE SubSeq(argv, 3, Len(argv))

\* Array.prototype.includes
Includes(args, word) == \E i \in 1..Len(args) : args[i] = word

\* mutant: the short flag is not looked for
IsHelp_LongOnly(args) == Len(args) = 0 \/ Includes(args, "--help")

\* the condition of the help branch
IsHelp(args) == Len(args) = 0 \/ Includes(args, "--help") \/ Includes(args, "-h")

\* the loop over args from index 2 (here: position i, 1-based) that keeps the
\* value after the last --language or -l
RECURSIVE LanguageFlagLoop(_, _, _)
LanguageFlagLoop(args, i, languageFromFlag) ==
    IF i > Len(args) THEN languageFromFlag
    ELSE IF args[i] \in {"--language", "-l"}
      THEN LanguageFlagLoop(args, i + 2,
                            IF i + 1 <= Len(args) THEN args[i + 1] ELSE UndefinedString)
    ELSE LanguageFlagLoop(args, i + 1, languageFromFlag)

ResolveLanguageInput(sourceFile, languageFromFlag) ==
    IF languageFromFlag # UndefinedString /\ Trim(languageFromFlag) # ""
      THEN Trim(languageFromFlag)
    ELSE LET ext == ToLowerCase(Extname(sourceFile))
         IN  IF ext = "" THEN UndefinedString ELSE ext

CliError(code, message) == [kind |-> "error", code |-> code, message |-> message]

ParseCliArgs(argv) ==
    LET args == SliceArgs(argv)
    IN  IF IsHelp(args) THEN [kind |-> "help"]
        ELSE IF Len(args) < 2 THEN CliError("INVALID_ARGS", "Missing required arguments")
        ELSE LET sourceFile == args[1]
                 extractArg == ToLowerCase(args[2])
             IN  IF extractArg \notin {"token", "symbols"}
                   THEN CliError("INVALID_EXTRACT", "Invalid extract mode")
                 ELSE LET language ==
                              ResolveLanguageInput(sourceFile,
                                  LanguageFlagLoop(args, 3, UndefinedString))
                      IN  IF language = UndefinedString
                            THEN CliError("LANGUAGE_REQUIRED", "Unable to detect language")
                          ELSE IF GetProfile(language) = Undefined
                            THEN CliError("UNKNOWN_LANGUAGE", "Unknown language")
                          ELSE [kind |-> "run", sourceFile |-> sourceFile,
                                extract |-> extractArg, language |-> language]

\* getHelpText() as a message
HelpText == [kind |-> "text", text |-> "Usage:"]

\* JSON.stringify of a CliErrorOutput
CliErrorOutput(code, message) ==
    [kind |-> "json", ok |-> FALSE, error |-> [code |-> code, message |-> message]]

\* JSON.stringify of the CliSuccessOutput for a result
CliSuccessOutput(parsed, result) ==
    [kind |-> "json", ok |-> TRUE, extract |-> parsed.extract,
     sourceFile |-> parsed.sourceFile, language |-> parsed.language,
     count |-> Len(result), result |-> result]

CliInit ==
    /\ cliArgv \in CliArgvs
    /\ cliParsed = [kind |-> "none"]
    /\ cliLog = <<>>
    /\ cliError = <<>>
    /\ cliExit = <<>>
    /\ clipc = "start"

\* executeCli up to its first return or to the await of readFile
CliExecute ==
    /\ clipc = "start"
    /\ LET parsed == ParseCliArgs(cliArgv)
       IN  /\ cliParsed' = parsed
           /\ CASE parsed.kind = "help" ->
                     /\ cliLog' = Append(cliLog, HelpText)
                     /\ cliExit' = Append(cliExit, 0)
                     /\ clipc' = "done"
                     /\ UNCHANGED cliError
                [] parsed.kind = "error" ->
                     /\ cliError' = Append(cliError, CliErrorOutput(parsed.code, parsed.message))
                     /\ cliExit' = Append(cliExit, 1)
                     /\ clipc' = "done"
                     /\ UNCHANGED cliLog
                [] OTHER ->
                     /\ clipc' = "readFile"
                     /\ UNCHANGED <<cliLog, cliError, cliExit>>
    /\ UNCHANGED cliArgv

\* readFile rejects: the catch block
CliReadRejected ==
    /\ clipc = "readFile"
    /\ cliError' = Append(cliError, CliErrorOutput("EXECUTION_ERROR", "ENOENT"))
    /\ cliExit' = Append(cliExit, 1)
    /\ clipc' = "done"
    /\ UNCHANGED <<cliArgv, cliParsed, cliLog>>

\* readFile resolves: the rest of the try block, where tokenize and
\* extractSymbols throw if the language has no profile
CliReadResolved(result) ==
    /\ clipc = "readFile"
    /\ IF ResolveLanguage(cliParsed.language).kind = "threw"
         THEN /\ cliError' = Append(cliError,
                                    CliErrorOutput("EXECUTION_ERROR", "Unknown language"))
              /\ cliExit' = Append(cliExit, 1)
              /\ UNCHANGED cliLog
         ELSE /\ cliLog' = Append(cliLog, CliSuccessOutput(cliParsed, result))
              /\ cliExit' = Append(cliExit, 0)
              /\ UNCHANGED cliError
    /\ clipc' = "done"
    /\ UNCHANGED <<cliArgv, cliParsed>>

CliNext ==
    \/ CliExecute /\ UNCHANGED nonCliVars
    \/ CliReadRejected /\ UNCHANGED nonCliVars
    \/ \E result \in CliResults : CliReadResolved(result) /\ UNCHANGED nonCliVars

\* no executeCli call is running
CliIdle ==
    /\ cliArgv = <<>>
    /\ cliParsed = [kind |-> "none"]
    /\ cliLog = <<>>
    /\ cliError = <<>>
    /\ cliExit = <<>>
    /\ clipc = "off"

-----------------------------------------------------------------------------
(* The lexer cache: lexerCache, getCompiledLexer, tokenizeWithConfig
   (lexer.ts).  A configuration object is an index into LexConfigs; a
   CompiledLexer object is [id, config], its id standing for its identity
   and config for the configuration its states were compiled from. *)

\* new CompiledLexer(config)
CompiledLexer(id, config) == [id |-> id, config |-> config]

\* mutant: any cached lexer is taken, whatever its key
GetCompiledLexer_AnyKey(cache, count, config) ==
    IF DOMAIN cache # {}
      THEN [lexer |-> cache[CHOOSE k \in DOMAIN cache : TRUE], cache |-> cache,
            count |-> count]
      ELSE [lexer |-> CompiledLexer(count + 1, config),
            cache |-> (config :> CompiledLexer(count + 1, config)) @@ cache,
            count |-> count + 1]

\* getCompiledLexer(config): the lexer returned, the cache and the number of
\* lexers constructed afterwards
GetCompiledLexer(cache, count, config) ==
    IF config \in DOMAIN cache
      THEN [lexer |-> cache[config], cache |-> cache, count |-> count]
      ELSE [lexer |-> CompiledLexer(count + 1, config),
            cache |-> (config :> CompiledLexer(count + 1, config)) @@ cache,
            count |-> count + 1]

\* new CompiledLexer(config).tokenize(source) run to its end: the tokens
\* returned, or the error thrown
RECURSIVE FreshLoop(_, _, _, _, _)
FreshLoop(c, s, r, stk, toks) ==
    IF Eof(s, r) THEN [kind |-> "tokens", tokens |-> toks]
    ELSE IF ~HasState(c, Current(stk)) THEN [kind |-> "threw", tokens |-> <<>>]
    ELSE LET rules == c.states[Current(stk)]
             k == FirstMatch(c, rules, 1, s, r.pos)
         IN  IF k > 0
             THEN LET consumed == Scan(rules[k].match, c.charClasses, s, r.pos)
                  IN  FreshLoop(c, s, AdvanceN(s, r, consumed),
                                ApplyTransition(stk, rules[k]),
                                Append(toks, MatchToken(c, rules[k], s, r, consumed)))
             ELSE FreshLoop(c, s, Advance(s, r), stk, Append(toks, ErrorToken(s, r)))

FreshTokenize(c, s) == FreshLoop(c, s, NewReader, NewStateMachine(c.initialState), <<>>)

\* the characters of the sources of the calls
CacheAlphabet == {"a", "{", "}"}

CacheInit ==
    /\ lexerCache = <<>>
    /\ lexerCount = 0
    /\ callConfig = 0
    /\ prevStack = <<>>

\* tokenizeWithConfig(source, config) up to the loop of tokenize: the lexer is
\* fetched or built, and tokenize makes its reader, state machine and tokens
CacheTokenize ==
    /\ lexpc \in {"idle", "done", "threw"}
    /\ \E config \in 1..Len(LexConfigs), source \in SeqsUpTo(CacheAlphabet, MaxCacheSrcLen) :
          LET got == GetCompiledLexer(lexerCache, lexerCount, config)
          IN  /\ lexerCache' = got.cache
              /\ lexerCount' = got.count
              /\ callConfig' = config
              /\ cfg' = got.lexer.config
              /\ src' = source
              /\ stack' = NewStateMachine(LexConfigs[got.lexer.config].initialState)
    /\ prevStack' = stack
    /\ reader' = NewReader
    /\ tokens' = <<>>
    /\ iters' = 0
    /\ lastScan' = 0
    /\ lastRule' = 0
    /\ lexpc' = "run"
    /\ UNCHANGED <<regVars, btVars, symVars, smVars, rdVars, cliVars>>

CacheNext ==
    \/ CacheTokenize
    \/ LexThrow
    \/ LexMatch
    \/ LexFallback
    \/ LexReturn

\* no lexer has been compiled and no tokenizeWithConfig call was made
CacheIdle == CacheInit

-----------------------------------------------------------------------------
(* Specifications: one per component, the other components at rest *)

\* one call of CompiledLexer.tokenize on any source under any configuration
InitLexer == RegInit /\ BtIdle /\ SymIdle /\ SmIdle /\ RdIdle /\ CliIdle /\ CacheIdle /\ LexInit

SpecLexer == InitLexer /\ [][LexNext]_vars

\* any sequence of registry and facade calls after module load
InitRegistry == RegInit /\ LexIdle /\ BtIdle /\ SymIdle /\ SmIdle /\ RdIdle /\ CliIdle /\ CacheIdle

SpecRegistry == InitRegistry /\ [][RegNext]_vars

\* one call of findBlockSpans on any token values under any block rules
InitBlocks == LexIdle /\ RegInit /\ SymIdle /\ SmIdle /\ RdIdle /\ CliIdle /\ CacheIdle /\ BtInit

SpecBlocks == InitBlocks /\ [][BtNext]_vars

\* one call of extractSymbolsFromProfile on any source under any of the profiles
InitSymbols == LexIdle /\ RegInit /\ BtIdle /\ SmIdle /\ RdIdle /\ CliIdle /\ CacheIdle /\ SymInit

SpecSymbols == InitSymbols /\ [][SymNext]_vars

\* a StateMachine driven by any calls
InitStateMachine == LexIdle /\ RegInit /\ BtIdle /\ SymIdle /\ RdIdle /\ CliIdle /\ CacheIdle /\ SmInit

SpecStateMachine == InitStateMachine /\ [][SmNext]_vars

\* a CharReader on any source, driven by any calls
InitReader == LexIdle /\ RegInit /\ BtIdle /\ SymIdle /\ SmIdle /\ CliIdle /\ CacheIdle /\ RdInit

SpecReader == InitReader /\ [][RdNext]_vars

\* one call of executeCli on any argv, the registry as it is after module load
InitCli == LexIdle /\ RegInit /\ BtIdle /\ SymIdle /\ SmIdle /\ RdIdle /\ CacheIdle /\ CliInit

SpecCli == InitCli /\ [][CliNext]_vars

\* any sequence of tokenizeWithConfig calls, one after the other
InitCache == LexIdle /\ RegInit /\ BtIdle /\ SymIdle /\ SmIdle /\ RdIdle /\ CliIdle /\ CacheInit

SpecCache == InitCache /\ [][CacheNext]_vars

-----------------------------------------------------------------------------
(* Claims about the lexer, checked under SpecLexer *)

RECURSIVE ConcatValues(_)
ConcatValues(toks) ==
    IF toks = <<>> THEN <<>>
    ELSE ConcatValues(SubSeq(toks, 1, Len(toks) - 1)) \o toks[Len(toks)].value

LastToken == tokens[Len(tokens)]

\* C1: when tokenize returns, the values of the returned tokens, concatenated
\* in order, are exactly the source string.
C1_Coverage == lexpc = "done" => ConcatValues(tokens) = src

C3_Progress ==
    /\ Len(tokens) = iters
    /\ iters <= reader.pos
    /\ reader.pos <= Len(src)
    /\ tokens # <<>> => reader.pos > LastToken.range.start.offset

\* a run that took as many iterations as a source of the maximal length has
\* characters, rule matches and fallbacks among them
C3_Witness ==
    /\ lexpc = "done"
    /\ Len(src) = MaxSrcLen
    /\ iters = Len(src)
    /\ \E i, j \in 1..Len(tokens) : tokens[i].type = "error" /\ tokens[j].type # "error"

\* C4: in an iteration won by a rule, that rule is the lowest-indexed rule of
\* the current state whose scan returns n > 0, the reader advances by exactly
\* n, and the token spans n characters and has the n scanned characters as
\* its value.
C4_ExactAdvance ==
    [][(iters' = iters + 1 /\ lastRule' > 0) =>
         LET c == LexConfigs[cfg]
             rules == c.states[Current(stack)]
             t == tokens'[Len(tokens')]
         IN  /\ lastScan' > 0
             /\ Scan(rules[lastRule'].match, c.charClasses, src, reader.pos) = lastScan'
             /\ \A j \in 1..(lastRule' - 1) :
                   Scan(rules[j].match, c.charClasses, src, reader.pos) = 0
             /\ reader'.pos = reader.pos + lastScan'
             /\ t.range.start.offset = reader.pos
             /\ t.range.end.offset - t.range.start.offset = lastScan'
             /\ t.value = Slice(src, reader.pos, reader.pos + lastScan')]_vars

\* C5: in an iteration in which no rule matches, exactly one character is
\* consumed: the token has type and category "error", that character as its
\* value and a range one offset long, and the state stack is unchanged.
C5_FallbackOneChar ==
    [][(iters' = iters + 1 /\ lastRule' = 0) =>
         LET t == tokens'[Len(tokens')]
         IN  /\ t.type = "error"
             /\ t.category = "error"
             /\ t.value = <<src[reader.pos + 1]>>
             /\ t.range.start.offset = reader.pos
             /\ t.range.end.offset = t.range.start.offset + 1
             /\ reader'.pos = reader.pos + 1
             /\ stack' = stack]_vars

-----------------------------------------------------------------------------
(* Claims about the registry and the facade, checked under SpecRegistry *)

\* an identifier that is neither a registered name nor, case-insensitively,
\* a registered extension
NotRegistered(id) ==
    /\ id \notin DOMAIN profilesByName
    /\ \A ext \in DOMAIN profilesByExtension : ToLowerCase(ext) # ToLowerCase(id)

\* C6: a tokenize or extractSymbols call with an identifier that is neither a
\* registered name nor, case-insensitively, a registered extension throws
\* "Unknown language" naming the identifier, returns no list and leaves the
\* registry unchanged.
C6_UnknownLanguage ==
    [][(lastCall'.op \in {"tokenize", "extractSymbols"} /\ NotRegistered(lastCall'.arg)) =>
         /\ lastCall'.result = UnknownLanguage(lastCall'.arg)
         /\ profilesByName' = profilesByName
         /\ profilesByExtension' = profilesByExtension]_vars

\* extractSymbols has thrown for ".T2" while a user profile that does not list
\* that extension is registered
C6_Witness ==
    /\ lastCall.op = "extractSymbols"
    /\ lastCall.arg = ".T2"
    /\ lastCall.result = UnknownLanguage(".T2")
    /\ "toytest" \in DOMAIN profilesByName

\* C10: right after registerProfile(P), getProfile(P.name) is P and
\* getProfile(e') is P for every case variant e' of every extension of P.
C10_LookupAfterRegister ==
    lastCall.op = "registerProfile" =>
        LET P == lastCall.arg
        IN  /\ GetProfile(P.name) = P
            /\ \A i \in 1..Len(P.fileExtensions) :
                 \A key \in LookupKeys :
                    ToLowerCase(key) = ToLowerCase(P.fileExtensions[i]) =>
                       GetProfile(key) = P

\* C10 as amended: right after registerProfile(P), getProfile(P.name) is P (a
\* profile registered earlier under that name is replaced) and getProfile(e')
\* is P for every case variant e' of every extension of P that is not itself
\* the name of a registered profile: a name takes precedence over an extension.
C10_LookupAfterRegisterUnlessName ==
    lastCall.op = "registerProfile" =>
        LET P == lastCall.arg
        IN  /\ GetProfile(P.name) = P
            /\ profilesByName[P.name] = P
            /\ \A i \in 1..Len(P.fileExtensions) :
                 \A key \in LookupKeys :
                    (/\ ToLowerCase(key) = ToLowerCase(P.fileExtensions[i])
                     /\ key \notin DOMAIN profilesByName) =>
                       GetProfile(key) = P

\* the second "toytest" profile has just been registered over the first, after
\* "other" had bound ".t2", and an upper-case query of ".t2" finds it
C10_Witness ==
    /\ lastCall.op = "registerProfile"
    /\ lastCall.arg.id = 102
    /\ "other" \in DOMAIN profilesByName
    /\ MapGet(profilesByExtension, ".toy").id = 102
    /\ GetProfile(".T2") = lastCall.arg

\* C11: right after module load, for every built-in profile P and every
\* extension e of P, getProfile(e) and getProfile(e.toUpperCase()) return a
\* profile whose name is P.name.
C11_BuiltinExtensions ==
    lastCall.op = "load" =>
        \A i \in 1..Len(BuiltinProfiles) :
            \A j \in 1..Len(BuiltinProfiles[i].fileExtensions) :
                LET e == BuiltinProfiles[i].fileExtensions[j]
                IN  /\ GetProfile(e).name = BuiltinProfiles[i].name
                    /\ GetProfile(ToUpperCase(e)).name = BuiltinProfiles[i].name

-----------------------------------------------------------------------------
(* Claims about the block tracker, checked under SpecBlocks *)

\* C9: every returned span has openIndex < closeIndex and depth >= 0, and there
\* is one block rule of the span's name whose open literal is the value of the
\* token at openIndex and whose close literal is the value of the token at
\* closeIndex.
C9_BlockBalance ==
    btpc = "done" =>
        \A k \in 1..Len(btSpans) :
            LET span == btSpans[k]
            IN  /\ span.openIndex < span.closeIndex
                /\ span.depth >= 0
                /\ \E r \in 1..Len(btRules) :
                      /\ btRules[r].name = span.name
                      /\ btRules[r].open = btTokens[span.openIndex + 1]
                      /\ btRules[r].close = btTokens[span.closeIndex + 1]

-----------------------------------------------------------------------------
(* Claims about the symbol detector, checked under SpecSymbols *)

\* C7: every symbol detectSymbols produces has its nameRange inside its
\* contentRange: nameRange.start.offset >= contentRange.start.offset and
\* nameRange.end.offset <= contentRange.end.offset.
C7_NameContainment ==
    \A k \in 1..Len(symSymbols) :
        /\ symSymbols[k].nameRange.start.offset >= symSymbols[k].contentRange.start.offset
        /\ symSymbols[k].nameRange.end.offset <= symSymbols[k].contentRange.end.offset

\* C8: every symbol detectSymbols produces has a well-formed contentRange: its
\* end is not before its start, in offset and in line.
C8_ContentRangeWellFormed ==
    \A k \in 1..Len(symSymbols) :
        /\ symSymbols[k].contentRange.end.offset >= symSymbols[k].contentRange.start.offset
        /\ symSymbols[k].contentRange.end.line >= symSymbols[k].contentRange.start.line

-----------------------------------------------------------------------------
(* Claims about the StateMachine, checked under SpecStateMachine *)

\* the stacks differ at most in their top element
SameBelowTop(a, b) ==
    /\ Len(a) = Len(b)
    /\ \A k \in 1..(Len(a) - 1) : a[k] = b[k]

\* C12: after any calls the stack holds at least one state and current is
\* defined; pop at depth 1 leaves the stack unchanged, pop on a deeper stack
\* removes exactly the top, push appends its argument, switchTo replaces only
\* the top.
C12_StackNeverEmpty ==
    /\ Len(smStack) >= 1
    /\ Current(smStack) \in SmStates
    /\ (smCall.op = "pop" /\ Len(smCall.before) = 1) => smStack = smCall.before
    /\ (smCall.op = "pop" /\ Len(smCall.before) > 1) =>
          smCall.before = Append(smStack, Current(smCall.before))
    /\ smCall.op = "push" => smStack = Append(smCall.before, smCall.arg)
    /\ smCall.op = "switchTo" =>
          SameBelowTop(smStack, smCall.before) /\ Current(smStack) = smCall.arg

\* pop has been called on the one-state stack <<"alt">>, which is still there
C12_Witness ==
    /\ smCall.op = "pop"
    /\ Len(smCall.before) = 1
    /\ smStack = <<"alt">>

-----------------------------------------------------------------------------
(* Claims about the CharReader, checked under SpecReader *)

\* the number of line terminators in s[0..n): \r\n counts once, a bare \r and a
\* \n once each
RECURSIVE Terminators(_, _)
Terminators(s, n) ==
    IF n <= 0 THEN 0
    ELSE IF s[n] = LF /\ n >= 2 /\ s[n - 1] = CR THEN Terminators(s, n - 1)
    ELSE IF s[n] \in {CR, LF} THEN Terminators(s, n - 1) + 1
    ELSE Terminators(s, n - 1)

\* the number of characters of s[0..n) after its last line terminator
RECURSIVE SinceTerminator(_, _)
SinceTerminator(s, n) ==
    IF n <= 0 \/ s[n] \in {CR, LF} THEN 0 ELSE SinceTerminator(s, n - 1) + 1

Remaining(s, r) == Len(s) - r.pos

\* C17: advanceN(n) moves the offset by exactly min(n, remaining) and returns
\* that slice of the source; advance() before the end moves the offset by
\* exactly one and returns the character it consumed.
C17_AdvanceExact ==
    /\ rdCall.op = "advanceN" =>
          LET k == IF rdCall.arg < Remaining(rdSrc, rdCall.before) THEN rdCall.arg
                   ELSE Remaining(rdSrc, rdCall.before)
          IN  /\ rdReader.pos = rdCall.before.pos + k
              /\ rdCall.result = Slice(rdSrc, rdCall.before.pos, rdCall.before.pos + k)
    /\ (rdCall.op = "advance" /\ Remaining(rdSrc, rdCall.before) > 0) =>
          /\ rdReader.pos = rdCall.before.pos + 1
          /\ rdCall.result = <<rdSrc[rdCall.before.pos + 1]>>

-----------------------------------------------------------------------------
(* Claims about the compiled matchers, checked under SpecReader *)

\* C13: no scan function moves the reader: after a scan call, whatever it
\* returns, offset, line and column are what they were before the call.
C13_ScanLeavesReader ==
    rdCall.op = "scan" => rdReader = rdCall.before

\* a sequence matcher has matched "a", a line feed and "a" from the start of the
\* source, and the reader is back on line 1
C13_Witness ==
    /\ rdCall.op = "scan"
    /\ rdCall.arg.kind = "sequence"
    /\ rdSrc = <<"a", LF, "a">>
    /\ rdCall.result = 3
    /\ rdReader = [pos |-> 0, line |-> 1, col |-> 0]

\* the character at offset i is absent or not a word character
Boundary(s, i) == i < 0 \/ i >= Len(s) \/ s[i + 1] \notin WordChars

\* the lengths of the listed words that are a prefix at p between two boundaries
KeywordCandidates(words, s, p) ==
    {Len(words[i]) : i \in {j \in 1..Len(words) :
                               /\ StartsWith(s, p, words[j])
                               /\ Boundary(s, p - 1)
                               /\ Boundary(s, p + Len(words[j]))}}

\* C14: a keywords matcher returns the length of the longest listed word that
\* is a prefix at the reader's offset p, with the character at p-1 absent or not
\* a word character and the character after the word absent or not a word
\* character; it returns 0 if there is no such word.
C14_KeywordBoundaries ==
    (rdCall.op = "scan" /\ rdCall.arg.kind = "keywords") =>
        LET c == KeywordCandidates(rdCall.arg.words, rdSrc, rdCall.before.pos)
        IN  /\ c = {} => rdCall.result = 0
            /\ c # {} => rdCall.result \in c /\ \A n \in c : n <= rdCall.result

\* "if" has been refused inside "iff" by a matcher that lists "i", "iff" and
\* "if", which returned 3
C14_Witness ==
    /\ rdCall.op = "scan"
    /\ rdCall.arg.kind = "keywords"
    /\ rdSrc = <<" ", "i", "f", "f">>
    /\ rdCall.before.pos = 1
    /\ rdCall.result = 3

\* C18: every positive match of a delimited matcher that is not multiline
\* contains no line terminator, with or without an escape character.
C18_SingleLine ==
    (/\ rdCall.op = "scan" /\ rdCall.arg.kind = "delimited"
     /\ ~rdCall.arg.multiline /\ rdCall.result > 0) =>
        \A i \in (rdCall.before.pos + 1)..(rdCall.before.pos + rdCall.result) :
            rdSrc[i] \notin {CR, LF}

\* the result the claim describes, from position pos with the counter at depth;
\* stopAtLine says whether a line terminator met as content ends the scan with 0
RECURSIVE DelimitedRef(_, _, _, _, _, _)
DelimitedRef(m, s, startPos, pos, depth, stopAtLine) ==
    IF pos >= Len(s) THEN 0
    ELSE IF m.escape # "" /\ s[pos + 1] = m.escape
      THEN DelimitedRef(m, s, startPos, pos + 2, depth, stopAtLine)
    ELSE IF m.nested /\ MatchAt(s, pos, m.open)
      THEN DelimitedRef(m, s, startPos, pos + Len(m.open), depth + 1, stopAtLine)
    ELSE IF MatchAt(s, pos, m.close)
      THEN IF depth = 1 THEN pos + Len(m.close) - startPos
           ELSE DelimitedRef(m, s, startPos, pos + Len(m.close), depth - 1, stopAtLine)
    ELSE IF stopAtLine /\ s[pos + 1] \in {CR, LF} THEN 0
    ELSE DelimitedRef(m, s, startPos, pos + 1, depth, stopAtLine)

DelimitedClaimed(m, s, p, stopAtLine) ==
    IF ~StartsWith(s, p, m.open) THEN 0
    ELSE DelimitedRef(m, s, p, p + Len(m.open), 1, stopAtLine)

\* C19: the result of a delimited matcher is the distance from the start of
\* the open literal to one past the close at which the counter reaches 0
\* (counter 1 after open, +1 at each further open when nested, -1 at each
\* close, the character after an escape skipped), 0 if the source ends first
\* and 0 if the open literal is not at the offset.
C19_DelimitedResult ==
    (rdCall.op = "scan" /\ rdCall.arg.kind = "delimited") =>
        rdCall.result = DelimitedClaimed(rdCall.arg, rdSrc, rdCall.before.pos, FALSE)

\* C19 as amended: the same, and a matcher that is not multiline returns 0 when
\* it meets a line terminator that is neither escaped nor part of an open or
\* close literal before the counter reaches 0.
C19_DelimitedResultOnLine ==
    (rdCall.op = "scan" /\ rdCall.arg.kind = "delimited") =>
        rdCall.result =
            DelimitedClaimed(rdCall.arg, rdSrc, rdCall.before.pos, ~rdCall.arg.multiline)

\* a nested matcher has matched "{{}}" whole
C19_Witness ==
    /\ rdCall.op = "scan"
    /\ rdCall.arg.kind = "delimited"
    /\ rdCall.arg.nested
    /\ rdSrc = <<"{", "{", "}", "}">>
    /\ rdCall.before.pos = 0
    /\ rdCall.result = 4

\* the digits of the base of the literal that number matcher m reads at p
BaseDigits(m, s, p) ==
    IF CharAt(s, p) = "0" /\ m.hex /\ CharAt(s, p + 1) \in {"x", "X"}
      THEN DigitChars \cup HexLetterChars
    ELSE IF CharAt(s, p) = "0" /\ m.octal /\ CharAt(s, p + 1) \in {"o", "O"}
      THEN {"0", "1", "2", "3", "4", "5", "6", "7"}
    ELSE IF CharAt(s, p) = "0" /\ m.binary /\ CharAt(s, p + 1) \in {"b", "B"}
      THEN {"0", "1"}
    ELSE DigitChars

\* C20: in every positive match of a number matcher with a separator, each
\* separator of the numeric part (the match without its unit suffix) is
\* followed, inside the numeric part, by a digit of the literal's base.
C20_SeparatorBetweenDigits ==
    (/\ rdCall.op = "scan" /\ rdCall.arg.kind = "number"
     /\ rdCall.arg.separator # "" /\ rdCall.result > 0) =>
        LET p == rdCall.before.pos
            numeric == ScanNumber([rdCall.arg EXCEPT !.suffix = <<>>], rdSrc, p)
        IN  \A i \in p..(p + numeric - 1) :
                CharAt(rdSrc, i) = rdCall.arg.separator =>
                    /\ i + 1 < p + numeric
                    /\ CharAt(rdSrc, i + 1) \in BaseDigits(rdCall.arg, rdSrc, p)

-----------------------------------------------------------------------------
(* Claims about the command line, checked under SpecCli *)

CliErrorCodes ==
    {"INVALID_ARGS", "INVALID_EXTRACT", "LANGUAGE_REQUIRED", "UNKNOWN_LANGUAGE",
     "EXECUTION_ERROR"}

\* C15: executeCli writes exactly one message in total and its exit code
\* matches the stream: help (no arguments, or --help / -h anywhere) writes the
\* usage text to log and returns 0; a successful run writes one JSON object with
\* ok:true and count = result.length to log and returns 0; every failure writes
\* one JSON object with ok:false and an error code to the error stream, nothing
\* to log, and returns 1. Nothing is written or returned before that.
C15_OneMessage ==
    LET help == \/ Len(cliArgv) <= 2
                \/ \E i \in 3..Len(cliArgv) : cliArgv[i] \in {"--help", "-h"}
    IN  /\ clipc \in {"start", "readFile"} =>
               cliLog = <<>> /\ cliError = <<>> /\ cliExit = <<>>
        /\ clipc = "done" =>
               /\ Len(cliLog) + Len(cliError) = 1
               /\ Len(cliExit) = 1
               /\ help => cliLog = <<HelpText>> /\ cliExit = <<0>>
               /\ (~help /\ cliLog # <<>>) =>
                      /\ cliLog[1].kind = "json"
                      /\ cliLog[1].ok
                      /\ cliLog[1].count = Len(cliLog[1].result)
                      /\ cliExit = <<0>>
               /\ cliError # <<>> =>
                      /\ cliError[1].kind = "json"
                      /\ ~cliError[1].ok
                      /\ cliError[1].error.code \in CliErrorCodes
                      /\ cliExit = <<1>>

\* a run on A.JSON, its language taken from the extension, has printed a
\* result of two symbols
C15_Witness ==
    /\ clipc = "done"
    /\ cliArgv = <<"node", "cli", "A.JSON", "Symbols">>
    /\ cliLog = << [kind |-> "json", ok |-> TRUE, extract |-> "symbols",
                    sourceFile |-> "A.JSON", language |-> ".json", count |-> 2,
                    result |-> <<"item", "item">>] >>
    /\ cliError = <<>>
    /\ cliExit = <<0>>

-----------------------------------------------------------------------------
(* Further claims about the matchers, checked under SpecReader *)

\* the sum the claim describes: element i measured at source offset p plus the
\* results of the elements before it, 0 as soon as one element returns 0
RECURSIVE SequenceClaimed(_, _, _, _, _)
SequenceClaimed(elements, i, cc, s, offset) ==
    IF i > Len(elements) THEN 0
    ELSE LET n == Scan(elements[i], cc, s, offset)
             rest == SequenceClaimed(elements, i + 1, cc, s, offset + n)
         IN  IF n = 0 THEN 0
             ELSE IF i < Len(elements) /\ rest = 0 THEN 0
             ELSE n + rest

\* C21: a sequence matcher at offset p returns 0 if any element returns 0 and
\* otherwise n_1 + ... + n_k, where n_i is the result of element i at source
\* offset p + n_1 + ... + n_(i-1), also when a match contains a \r\n pair.
C21_SequenceSum ==
    (rdCall.op = "scan" /\ rdCall.arg.kind = "sequence") =>
        rdCall.result = SequenceClaimed(rdCall.arg.elements, 1, ReaderCharClasses,
                                        rdSrc, rdCall.before.pos)

-----------------------------------------------------------------------------
(* Further claims about the block tracker, checked under SpecBlocks *)

\* C22: when two block rules with different names share their open literal and
\* differ in their close literal, the tokens <open, close of either rule> yield
\* a span of that rule's name over the two tokens, whatever the order of the
\* rules.
C22_SharedOpen ==
    (/\ btpc = "done"
     /\ Len(btRules) = 2
     /\ btRules[1].name # btRules[2].name
     /\ btRules[1].open = btRules[2].open
     /\ btRules[1].close # btRules[2].close) =>
        \A r \in 1..2 :
            btTokens = <<btRules[r].open, btRules[r].close>> =>
                \E k \in 1..Len(btSpans) :
                    /\ btSpans[k].name = btRules[r].name
                    /\ btSpans[k].openIndex = 0
                    /\ btSpans[k].closeIndex = 1

\* span a lies strictly inside span b
Encloses(b, a) == b.openIndex < a.openIndex /\ a.closeIndex < b.closeIndex

\* C23: the depth of every returned span is the number of returned spans that
\* strictly enclose it, also with opens that are never closed and closes that
\* do not match.
C23_DepthIsNesting ==
    btpc = "done" =>
        \A k \in 1..Len(btSpans) :
            btSpans[k].depth =
                Cardinality({j \in 1..Len(btSpans) : Encloses(btSpans[j], btSpans[k])})

\* no index is used twice and no two spans cross
WellNested(spans) ==
    \A j, k \in 1..Len(spans) :
        j # k =>
            /\ {spans[j].openIndex, spans[j].closeIndex}
                   \cap {spans[k].openIndex, spans[k].closeIndex} = {}
            /\ \/ spans[j].closeIndex < spans[k].openIndex
               \/ spans[k].closeIndex < spans[j].openIndex
               \/ Encloses(spans[j], spans[k])
               \/ Encloses(spans[k], spans[j])

\* the current token is a close literal with no frame of its rule on the stack
UnmatchedClose ==
    /\ btpc = "run"
    /\ btI < Len(btTokens)
    /\ btTokens[btI + 1] \notin {btRules[r].open : r \in 1..Len(btRules)}
    /\ btTokens[btI + 1] \in {btRules[r].close : r \in 1..Len(btRules)}
    /\ LET name == btRules[CHOOSE r \in 1..Len(btRules) :
                               /\ btRules[r].close = btTokens[btI + 1]
                               /\ \A q \in (r + 1)..Len(btRules) :
                                      btRules[q].close # btTokens[btI + 1]].name
       IN  \A f \in 1..Len(btStack) : btStack[f].name # name

-----------------------------------------------------------------------------
(* Further claims about the symbol detector, checked under SpecSymbols *)

\* detectSymbols is about to call tryMatch(filtered, fi, rule.pattern)
SymAttempt == SymInLoop /\ symFi \notin symUsed

SymPattern == SymRules[symRule].pattern

SymMatch == TryMatch(symTokens, SymFiltered, symFi, SymPattern)

\* the token at compressed position q
FilteredToken(q) == symTokens[SymFiltered[q + 1] + 1]

\* C25: a compressed position claimed by one match is never reused: the
\* positions [startIndex, endIndex) of every match detectSymbols accepts are
\* disjoint from the positions of all matches accepted before it (the set used),
\* whether those came from the same rule or from another one.
C25_NoReuse ==
    (SymAttempt /\ SymMatch.ok) =>
        (SymMatch.startIndex .. SymMatch.endIndex - 1) \cap symUsed = {}

\* the end index the claim gives a pattern of token and optional steps from
\* step pi at position idx, or -1 if the pattern fails
RECURSIVE OptionalClaimed(_, _, _)
OptionalClaimed(pattern, pi, idx) ==
    IF pi > Len(pattern) THEN idx
    ELSE IF pattern[pi].kind = "optional"
      THEN IF /\ idx < Len(SymFiltered)
              /\ MatchSingleStep(FilteredToken(idx), pattern[pi].optional, NoCaptures, idx).ok
             THEN OptionalClaimed(pattern, pi + 1, idx + 1)
             ELSE OptionalClaimed(pattern, pi + 1, idx)
    ELSE IF idx < Len(SymFiltered) /\ MatchTokenStep(FilteredToken(idx), pattern[pi])
      THEN OptionalClaimed(pattern, pi + 1, idx + 1)
    ELSE -1

\* C26: an optional step never makes a pattern fail: it advances by one if its
\* step matches the current token and leaves the position unchanged otherwise,
\* also when it is reached after the last compressed token; so a pattern of
\* token and optional steps matches exactly when its token steps match in order.
C26_OptionalNeverFails ==
    (/\ SymAttempt
     /\ \A pi \in 1..Len(SymPattern) : SymPattern[pi].kind \in {"token", "optional"}) =>
        LET end == OptionalClaimed(SymPattern, 1, symFi)
        IN  /\ SymMatch.ok <=> end >= 0
            /\ SymMatch.ok => SymMatch.endIndex = end

\* the positions q from p on, within the bound of the skip step and the tokens,
\* at which the step after the skip matches
SkipTargets(p) ==
    LET maxTokens == IF SymPattern[2].hasMaxTokens THEN SymPattern[2].maxTokens
                     ELSE DefaultMaxTokens
    IN  {q \in p..(p + maxTokens - 1) :
            /\ q < Len(SymFiltered)
            /\ MatchSingleStep(FilteredToken(q), SymPattern[3], NoCaptures, q).ok}

\* C27: for a pattern <token step, skip, next step> whose token step matches at
\* fi, so that the skip is reached at p = fi + 1: the pattern matches iff next
\* matches at some q in p .. p + N - 1 before the end of the tokens; the match
\* then ends at the smallest such q plus 1 and a capture of next is recorded at
\* that q; the pattern fails if the skip is its last step.
C27_SkipBound ==
    (/\ SymAttempt
     /\ Len(SymPattern) \in {2, 3}
     /\ SymPattern[1].kind = "token"
     /\ SymPattern[2].kind = "skip"
     /\ MatchTokenStep(FilteredToken(symFi), SymPattern[1])) =>
        IF Len(SymPattern) = 2 THEN ~SymMatch.ok
        ELSE LET targets == SkipTargets(symFi + 1)
             IN  /\ SymMatch.ok <=> targets # {}
                 /\ SymMatch.ok =>
                        /\ SymMatch.endIndex - 1 \in targets
                        /\ \A q \in targets : SymMatch.endIndex - 1 <= q
                        /\ SymPattern[3].capture # "" =>
                               SymMatch.captureIndices[SymPattern[3].capture]
                                   = SymMatch.endIndex - 1

\* "f}{" under <keyword, skip of at most 2, "{">: the skip passed over "}" and
\* the match covers the three tokens
C27_Witness ==
    /\ symProfile = 4
    /\ symSrc = <<"f", "}", "{">>
    /\ symRule = 1
    /\ symUsed = {0, 1, 2}
    /\ Len(symSymbols) = 1

-----------------------------------------------------------------------------
(* Further claims about the lexer, checked under SpecLexer *)

\* C28: reaching an unknown state is fatal: once a push, a switchTo or the
\* initialState has made a name that is not a state of the configuration the
\* top of the stack, tokenize does not return a token list.
C28_UnknownStateFatal ==
    ~HasState(LexConfigs[cfg], Current(stack)) => lexpc # "done"

-----------------------------------------------------------------------------
(* Claims about the lexer cache, checked under SpecCache *)

\* C29: tokenizing keeps no state between calls: what a tokenizeWithConfig
\* call returns or throws is what a freshly constructed CompiledLexer returns or
\* throws for the same configuration and source, whatever was tokenized before
\* and wherever the state stack of the call before ended; getCompiledLexer hands
\* out one lexer per configuration and the same one on every call.
C29_NoStateBetweenCalls ==
    [][/\ lexpc' = "done" =>
              FreshTokenize(LexConfigs[callConfig'], src')
                  = [kind |-> "tokens", tokens |-> tokens']
       /\ lexpc' = "threw" => FreshTokenize(LexConfigs[callConfig'], src').kind = "threw"
       /\ lexpc' = "run" => cfg' = callConfig'
       /\ \A k \in DOMAIN lexerCache : lexerCache'[k] = lexerCache[k]
       /\ \A k \in DOMAIN lexerCache' : lexerCache'[k].config = k
       /\ lexerCount' = Cardinality(DOMAIN lexerCache')]_vars

\* a call on "{" "}" under the first configuration has returned its two
\* tokens; the call before it ended inside a pushed state, and both
\* configurations have a cached lexer
C29_Witness ==
    /\ lexpc = "done"
    /\ callConfig = 1
    /\ src = <<"{", "}">>
    /\ Len(tokens) = 2
    /\ prevStack = <<"main", "inner">>
    /\ DOMAIN lexerCache = {1, 2}

-----------------------------------------------------------------------------
(* Further claims about the registry, checked under SpecRegistry *)

\* C30: after any sequence of registerProfile calls, every profile getProfile
\* returns for a key is the profile currently bound to its own name, so no
\* lookup returns a profile that a later registration of the same name has
\* replaced; and every supported extension maps to a profile whose name is a
\* registered language.
C30_NoReplacedProfile ==
    /\ \A key \in LookupKeys :
           GetProfile(key) # Undefined => GetProfile(GetProfile(key).name) = GetProfile(key)
    /\ \A ext \in DOMAIN profilesByExtension :
           profilesByExtension[ext].name \in DOMAIN profilesByName

====
